---------------------------- MODULE Spec2Model ----------------------------
(***************************************************************************)
(* State-machine model of the SDRIG host SDK (sdrig/):                     *)
(*   - the device engines DeviceUIO, DeviceELoad and DeviceIfMux: shadow   *)
(*     state, setters, change-detected immediate sends, periodic snapshot; *)
(*   - the scheduler TaskMonitor: task table, scheduler threads, start and *)
(*     stop.                                                               *)
(* Values are integers: volts, milliamps (UIO), amps (ELoad), Hz, percent. *)
(***************************************************************************)
EXTENDS Integers, Sequences, FiniteSets, TLC

\* ------------------------------------------------------------------ bounds

\* Pins / channels modelled per device (the devices have 8).
NPins == 2

\* Send failures (encode or transmit) the environment injects in a behaviour.
MaxFails == 1

\* ------------------------------------------------------- program constants

\* FeatureState.DISABLED and FeatureState.OPERATE
DISABLED == 2
OPERATE == 3

Pins == 0 .. (NPins - 1)

\* Feature members that the devices use as op-mode keys.
Features == {"GET_VOLTAGE", "SET_VOLTAGE", "GET_CURRENT", "SET_CURRENT", "GET_PWM", "SET_PWM"}

\* Keys of DeviceUIO._switch_states.
SwitchKeys == {"icu", "pwm", "vlt_o", "cur_o", "cur_i"}

\* Device classes; one device object is under observation in a behaviour.
DeviceKinds == {"UIO", "ELoad", "IfMux"}

\* dict[key] = value on a dict modelled as a function.
DictSet(d, k, v) == [x \in (DOMAIN d) \cup {k} |-> IF x = k THEN v ELSE d[x]]

\* The empty dict.
EmptyDict == [x \in {} |-> 0]

\* ----------------------------------------------------------- input values

\* Arguments offered to the setters: in range, on both boundaries, outside.
\* Pin 0 is offered every operation and value; the other pins are offered
\* set_voltage(12) only, so that the vectors carry more than one element.
\* <<pin, voltage>> for Pin.set_voltage.
VoltageArgs == ({0} \X {0, 12, 24}) \cup ((Pins \ {0}) \X {12})
               \cup {<<-1, 12>>, <<8, 12>>, <<0, -1>>, <<0, 25>>}
\* <<pin, current>> for Pin.set_tx_current.
UioCurrentArgs == ({0} \X {0, 20}) \cup {<<8, 20>>, <<0, -1>>, <<0, 21>>}
\* <<pin, frequency, duty_cycle, voltage>> for Pin.set_pwm.
PwmArgs == {<<0, 1000, 50, 5>>, <<0, 1000, 50, 12>>, <<0, 10, 50, 5>>}
           \cup {<<-1, 1000, 50, 5>>, <<0, -1, 50, 5>>, <<0, 5001, 50, 5>>,
                 <<0, 1000, -1, 5>>, <<0, 1000, 101, 5>>}
\* Pins on which the accessors and disable_all_features are called.
AccessorPins == {0}

\* Valid index bound of DeviceUIO.pin / DeviceELoad.channel (0 <= i <= 7).
MaxPinIndex == 7

VARIABLES
    kind,        \* class of the device object
    uio,         \* DeviceUIO: op, sw, v, c, p and the last-sent mirrors vl, cl, pl
    eload,       \* DeviceELoad: op, v, c, the mirrors vl, cl, and relay
    ifmux,       \* DeviceIfMux: speeds, speeds_fd, their mirrors, mux_int
    call,        \* the last API call, handler or scheduler tick and how it ended
    tried,       \* PGNs whose send the last call attempted, in order
    sent,        \* frames the last call put on the wire, in order
    armed,       \* [pin, v] when the most recent setter calls are a run of UIO
                 \* set_voltage(pin, v), the first of which put its frame on
                 \* the wire; NoSetter otherwise
    fails,       \* attempted sends that have failed so far
    tasks,       \* TaskMonitor.tasks: the Task records in insertion order
    running,     \* TaskMonitor.running
    thread,      \* TaskMonitor.thread: a scheduler thread or NoThread
    pc,          \* where each scheduler thread is in _run
    current_time,      \* _run's current_time of each thread
    tasks_to_execute,  \* _run's remaining tasks_to_execute of each thread
    iter_size,   \* size of tasks when a thread began its min() over it
    now,         \* time.time()
    starting,    \* callers of start() past its "if self.running" check
    joining,     \* thread the caller of stop() is joining, or NoThread
    auto_disabled,     \* names whose task _run disabled and nobody re-enabled
    stop_joined  \* the last stop() returned after its join found the thread
                 \* ended, no start() was under way then and none was called
                 \* since

ioVars == <<call, tried, sent>>

devVars == <<kind, uio, eload, ifmux, call, tried, sent, armed, fails>>

tmVars == <<tasks, running, thread, pc, current_time, tasks_to_execute,
            iter_size, now, starting, joining, auto_disabled, stop_joined>>

\* The heartbeat / snapshot cadence of one running device, in time units of
\* 100 ms.
VARIABLES
    clock,       \* time.time() since start(), in units
    hb_last,     \* last_run of the task "module_info"
    snap_last,   \* last_run of the second periodic task
    hb_gap,      \* units between the last two MODULE_INFO_REQ (0: only one so far)
    snap_gap,    \* units between the last two runs of the second task (0: fewer than two)
    hb_count,    \* MODULE_INFO_REQ emitted so far, the one of start() included
    snap_count   \* runs of the second task so far

cadVars == <<clock, hb_last, snap_last, hb_gap, snap_gap, hb_count, snap_count>>

\* One AVTPBuilder shared by the threads that send through one AVTPManager.
VARIABLES
    sequence_number,   \* AVTPBuilder.sequence_number
    seq_pc,            \* per sending thread: where it is in send_can_message
    seq_frame,         \* per sending thread: sequence number of the packet it builds
    seq_tmp,           \* per sending thread: the value read for the increment
    seq_started,       \* calls of send_can_message begun so far
    wire_last,         \* sequence number of the last frame handed to sendp
    wire_any           \* a frame was handed to sendp

seqVars == <<sequence_number, seq_pc, seq_frame, seq_tmp, seq_started, wire_last, wire_any>>

\* The receiver thread of one AVTP manager, feeding a device or a discovery.
VARIABLES
    rx_pc,        \* "idle" between frames, "loop" inside the loop over ACF blocks
    rx_who,       \* whose callback got the last frame: "device" or "discovery"
    rx_frame,     \* the last frame received
    rx_verdict,   \* what the header checks made of it
    rx_offset,    \* offset of _parse_avtp_frame
    rx_iters,     \* iterations of its loop made for the frame
    rx_blocks,    \* lengths of the ACF blocks of the frame handed on so far
    rx_handled,   \* ACF blocks that got past the length check of _parse_acf_can_message
    rx_count,     \* frames received so far
    rx_health     \* DeviceHealth counters of the device

rxVars == <<rx_pc, rx_who, rx_frame, rx_verdict, rx_offset, rx_iters, rx_blocks,
            rx_handled, rx_count, rx_health>>

\* The facade SDRIG.
VARIABLES
    sdk_devices,   \* _connected_devices, in insertion order: <<[mac, id], ...>>
    sdk_objects,   \* every device object created so far: id -> [mac, kind, running]
    sdk_call       \* the last call of the facade: [op, mac, ret, raised]

sdkVars == <<sdk_devices, sdk_objects, sdk_call>>

\* DeviceManager: discovery.
VARIABLES
    disc_pc,         \* where discover_devices is: "idle", "send" or "wait"
    disc_devices,    \* self.devices: MAC -> [info, ex] (which messages filled the entry)
    disc_receiving,  \* the receiver of the manager's transport is running
    disc_frames,     \* discovery frames transmitted by the current call
    disc_timeout,    \* the timeout argument, in sleeps of 0.1 s
    disc_waited,     \* sleeps of the waiting loop made so far
    disc_info,       \* MACs from which a MODULE_INFO was decoded during the current call
    disc_ex,         \* MACs from which a MODULE_INFO_EX was decoded during it
    disc_answers,    \* frames received so far
    disc_calls,      \* calls of discover_devices so far
    disc_call        \* outcome of the last call: [done, raised, ret]

discVars == <<disc_pc, disc_devices, disc_receiving, disc_frames, disc_timeout,
              disc_waited, disc_info, disc_ex, disc_answers, disc_calls, disc_call>>

\* One call of a frame or identifier codec: its arguments and what it returned.
VARIABLES
    cdc_in,      \* the function called and its arguments
    cdc_out,     \* what the call returned
    cdc_done     \* the call was made

codecVars == <<cdc_in, cdc_out, cdc_done>>

\* A caller thread inside Pin.set_voltage and the scheduler thread inside
\* DeviceUIO._send_all_parameters, on the same DeviceUIO (the variable uio).
VARIABLES
    rc_set_pc,      \* where the caller is in set_voltage
    rc_set_arg,     \* the voltage argument of the call under way or last made
    rc_set_todo,    \* features disable_all_features has still to disable
    rc_set_calls,   \* calls of set_voltage begun
    rc_before,      \* the shadow when the call under way or last made began
    rc_skipped,     \* the last call found v equal to the mirror and sent nothing
    rc_tick_pc,     \* where the scheduler is in _send_all_parameters
    rc_tick_keys,   \* keys of _op_modes[pin] when its iteration began
    rc_tick_data,   \* the data dict _send_voltage_out_req built
    rc_ticks,       \* runs of _send_all_parameters begun
    rc_tick_raised, \* a run ended in an exception of its own reads
    rc_seen_op,     \* the last OP_MODE_REQ of the scheduler and when it was built
    rc_seen_sw,     \* the last SWITCH_OUTPUT_REQ of the scheduler, likewise
    rc_carried      \* the voltage vectors carried by VOLTAGE_OUT_VAL_REQ frames sent

raceVars == <<rc_set_pc, rc_set_arg, rc_set_todo, rc_set_calls, rc_before, rc_skipped,
              rc_tick_pc, rc_tick_keys, rc_tick_data, rc_ticks, rc_tick_raised,
              rc_seen_op, rc_seen_sw, rc_carried>>

\* One scheduler thread of a TaskMonitor with its tasks, over a stretch of time.
VARIABLES
    sch_now,       \* time.time()
    sch_tasks,     \* name -> [period, last_run] of the enabled tasks
    sch_pc,        \* where _run is: "top", "scan", "run" or "cb"
    sch_ct,        \* current_time of the pass under way
    sch_queue,     \* tasks_to_execute still to be called, in order
    sch_sel,       \* name -> [prev, last, count]: scan times that selected the task
    sch_inv        \* name -> [prev, last, count]: times its callback was entered

schedVars == <<sch_now, sch_tasks, sch_pc, sch_ct, sch_queue, sch_sel, sch_inv>>

\* Callbacks and the locks around them: the scheduler thread of a TaskMonitor
\* with one task, and the receiver thread of a device with one PGN.
VARIABLES
    cb_pc,          \* position of the scheduler thread ("sched") and of the receiver thread ("rx")
    cb_lock,        \* holder of TaskMonitor._lock (threading.Lock)
    cb_map_lock,    \* holder of DeviceSDR._message_callbacks_lock (threading.RLock)
    cb_task,        \* the task in TaskMonitor.tasks: [present, enabled]
    cb_registered,  \* a callback is in _message_callbacks for the PGN
    cb_block,       \* the ACF block in hand and what happened to it
    cb_blocks,      \* ACF blocks handed to _parse_acf_can_message so far
    cb_shadow,      \* updates of the shadow made by _process_can_message
    cb_api          \* calls back into the API made from inside callbacks, per thread

cbVars == <<cb_pc, cb_lock, cb_map_lock, cb_task, cb_registered, cb_block, cb_blocks,
            cb_shadow, cb_api>>

NoBlock ==
    [raw |-> FALSE, decoded |-> FALSE, raw_raised |-> FALSE, pgn_raised |-> FALSE,
     handler_raised |-> FALSE, handled |-> FALSE]

\* TaskMonitor with one enabled task, a device with a callback registered,
\* both threads between two passes.
CbInit ==
    /\ cb_pc = [sched |-> "top", rx |-> "idle"]
    /\ cb_lock = "free"
    /\ cb_map_lock = "free"
    /\ cb_task = [present |-> TRUE, enabled |-> TRUE]
    /\ cb_registered = TRUE
    /\ cb_block = NoBlock
    /\ cb_blocks = 0
    /\ cb_shadow = 0
    /\ cb_api = [sched |-> 0, rx |-> 0]

\* Everything outside the device shadow and the task monitor.
extVars == <<cadVars, seqVars, rxVars, sdkVars, discVars, codecVars, raceVars, schedVars, cbVars>>

notCad == <<devVars, tmVars, seqVars, rxVars, sdkVars, discVars, codecVars, raceVars, schedVars, cbVars>>
notSeq == <<devVars, tmVars, cadVars, rxVars, sdkVars, discVars, codecVars, raceVars, schedVars, cbVars>>
notRx == <<devVars, tmVars, cadVars, seqVars, sdkVars, discVars, codecVars, raceVars, schedVars, cbVars>>
notSdk == <<devVars, tmVars, cadVars, seqVars, rxVars, discVars, codecVars, raceVars, schedVars, cbVars>>
notDisc == <<devVars, tmVars, cadVars, seqVars, rxVars, sdkVars, codecVars, raceVars, schedVars, cbVars>>
notCodec == <<devVars, tmVars, cadVars, seqVars, rxVars, sdkVars, discVars, raceVars, schedVars, cbVars>>
notRace == <<devVars, tmVars, cadVars, seqVars, rxVars, sdkVars, discVars, codecVars, schedVars, cbVars>>
notCodecSeq == <<devVars, tmVars, cadVars, rxVars, sdkVars, discVars, raceVars, schedVars, cbVars>>
notRaceUio == <<kind, eload, ifmux, ioVars, armed, fails, tmVars, cadVars, seqVars, rxVars, sdkVars, discVars, codecVars, schedVars, cbVars>>
notSched == <<devVars, tmVars, cadVars, seqVars, rxVars, sdkVars, discVars, codecVars, raceVars, cbVars>>
notCb == <<devVars, tmVars, cadVars, seqVars, rxVars, sdkVars, discVars, codecVars, raceVars, schedVars>>

vars == <<devVars, tmVars, extVars>>

\* ---------------------------------------------------------------- sending

Frame(pgn, data) == [pgn |-> pgn, data |-> data]

NoLog == [tried |-> << >>, sent |-> << >>]

\* DeviceSDR.send_can_message as seen by its callers: the message is counted
\* as attempted; it reaches the wire iff encoding and transmission succeed,
\* otherwise the exception propagates to the caller (ok = FALSE).
SendCanMessage(log, pgn, data, ok) ==
    [tried |-> Append(log.tried, pgn),
     sent  |-> IF ok THEN Append(log.sent, Frame(pgn, data)) ELSE log.sent]

\* Result of an API call: device after it, send log, whether it raised.
Result(d, log, raised) == [d |-> d, log |-> log, raised |-> raised]

\* --------------------------------------------------------------- DeviceUIO

\* DeviceUIO.__init__; cs is state.current.set_value of each Pin.
UioInit ==
    [op |-> [i \in Pins |-> EmptyDict],
     sw |-> [k \in SwitchKeys |-> [i \in Pins |-> FALSE]],
     v  |-> [i \in Pins |-> 0],
     c  |-> [i \in Pins |-> 0],
     cs |-> [i \in Pins |-> 0],
     p  |-> [i \in Pins |-> <<0, 0, 5>>],
     vl |-> [i \in Pins |-> 0],
     cl |-> [i \in Pins |-> 0],
     pl |-> [i \in Pins |-> <<0, 0, 5>>]]

\* DeviceUIO._set_op_mode
UioSetOpMode(d, pin, f, s) == [d EXCEPT !.op[pin] = DictSet(@, f, s)]

\* feature_to_switch of Pin.disable_feature
FeatureToSwitch ==
    [f \in {"SET_VOLTAGE", "SET_CURRENT", "SET_PWM", "GET_CURRENT", "GET_PWM"} |->
        CASE f = "SET_VOLTAGE" -> "vlt_o"
          [] f = "SET_CURRENT" -> "cur_o"
          [] f = "SET_PWM"     -> "pwm"
          [] f = "GET_CURRENT" -> "cur_i"
          [] f = "GET_PWM"     -> "icu"]

\* A disable_feature that leaves the switches alone.
PinDisableFeature_OpModeOnly(d, pin, f) == UioSetOpMode(d, pin, f, DISABLED)

\* Pin.disable_feature
PinDisableFeature(d, pin, f) ==
    LET d1 == UioSetOpMode(d, pin, f, DISABLED)
    IN  IF f \in DOMAIN FeatureToSwitch
        THEN [d1 EXCEPT !.sw[FeatureToSwitch[f]][pin] = FALSE]
        ELSE d1

\* features_to_disable of Pin.disable_all_features
FeaturesToDisable ==
    <<"GET_VOLTAGE", "SET_VOLTAGE", "GET_CURRENT", "SET_CURRENT", "GET_PWM", "SET_PWM">>

RECURSIVE DisableEach(_, _, _)
DisableEach(d, pin, fs) ==
    IF fs = << >> THEN d
    ELSE DisableEach(PinDisableFeature(d, pin, Head(fs)), pin, Tail(fs))

\* Pin.disable_all_features
PinDisableAllFeatures(d, pin) == DisableEach(d, pin, FeaturesToDisable)

\* feature_map of DeviceUIO._send_op_mode_req
OpModePrefix ==
    [f \in Features |->
        CASE f = "GET_VOLTAGE" -> "vlt_i"
          [] f = "SET_VOLTAGE" -> "vlt_o"
          [] f = "GET_CURRENT" -> "cur_i"
          [] f = "SET_CURRENT" -> "cur_o"
          [] f = "GET_PWM"     -> "icu"
          [] f = "SET_PWM"     -> "pwm"]

\* Signals of OP_MODE_REQ as DeviceUIO._send_op_mode_req renders them:
\* <<prefix, pin>> -> value, 2 (disabled) unless the op-mode dict says otherwise.
UioOpModeData(d) ==
    [x \in {OpModePrefix[f] : f \in Features} \X Pins |->
        LET f == CHOOSE g \in Features : OpModePrefix[g] = x[1]
        IN  IF f \in DOMAIN d.op[x[2]] THEN d.op[x[2]][f] ELSE DISABLED]

\* Signals of SWITCH_OUTPUT_REQ: <<key, pin>> -> 1 if closed else 0.
UioSwitchData(d) ==
    [x \in SwitchKeys \X Pins |-> IF d.sw[x[1]][x[2]] THEN 1 ELSE 0]

\* DeviceUIO._send_op_mode_req (a failed send is swallowed)
UioSendOpModeReq(st, ok) ==
    [st EXCEPT !.log = SendCanMessage(@, "OP_MODE_REQ", UioOpModeData(st.d), ok)]

\* A _send_voltage_out_req that never records what it sent.
UioSendVoltageOutReq_KeepMirror(st, ok) ==
    [d   |-> st.d,
     log |-> SendCanMessage(st.log, "VOLTAGE_OUT_VAL_REQ", st.d.v, ok),
     raised |-> st.raised]

\* DeviceUIO._send_voltage_out_req: the mirror follows a successful send only
UioSendVoltageOutReq(st, ok) ==
    [d   |-> IF ok THEN [st.d EXCEPT !.vl = st.d.v] ELSE st.d,
     log |-> SendCanMessage(st.log, "VOLTAGE_OUT_VAL_REQ", st.d.v, ok),
     raised |-> st.raised]

\* DeviceUIO._send_current_out_req
UioSendCurrentOutReq(st, ok) ==
    [d   |-> IF ok THEN [st.d EXCEPT !.cl = st.d.c] ELSE st.d,
     log |-> SendCanMessage(st.log, "CUR_LOOP_OUT_VAL_REQ", st.d.c, ok),
     raised |-> st.raised]

\* DeviceUIO._send_pwm_out_req
UioSendPwmOutReq(st, ok) ==
    [d   |-> IF ok THEN [st.d EXCEPT !.pl = st.d.p] ELSE st.d,
     log |-> SendCanMessage(st.log, "PWM_OUT_VAL_REQ", st.d.p, ok),
     raised |-> st.raised]

\* DeviceUIO._send_switch_output_req (a failed send is swallowed)
UioSendSwitchOutputReq(st, ok) ==
    [st EXCEPT !.log = SendCanMessage(@, "SWITCH_OUTPUT_REQ", UioSwitchData(st.d), ok)]

\* DeviceUIO._send_all_parameters: the periodic snapshot, oks[i] the outcome
\* of the i-th send.
UioSendAllParameters(d, oks) ==
    UioSendSwitchOutputReq(
      UioSendPwmOutReq(
        UioSendCurrentOutReq(
          UioSendVoltageOutReq(
            UioSendOpModeReq(Result(d, NoLog, FALSE), oks[1]),
            oks[2]),
          oks[3]),
        oks[4]),
      oks[5])

\* DeviceUIO.pin: the index check
PinIndexOk(pin) == 0 <= pin /\ pin <= MaxPinIndex

\* A Pin.set_voltage that does not disable the pin's other features first.
PinSetVoltage_NoDisable(d, pin, voltage, ok) ==
    IF ~(0 <= voltage /\ voltage <= 24) THEN Result(d, NoLog, TRUE)
    ELSE
      LET d2 == UioSetOpMode(d, pin, "SET_VOLTAGE", OPERATE)
          d3 == UioSetOpMode(d2, pin, "GET_VOLTAGE", OPERATE)
          d4 == [d3 EXCEPT !.sw["vlt_o"][pin] = TRUE]
          d5 == [d4 EXCEPT !.v[pin] = voltage]
      IN  IF d5.v # d5.vl
          THEN UioSendVoltageOutReq(Result(d5, NoLog, FALSE), ok)
          ELSE Result(d5, NoLog, FALSE)

\* A Pin.set_voltage that leaves the vlt_o switch as disable_all_features put it.
PinSetVoltage_NoSwitch(d, pin, voltage, ok) ==
    IF ~(0 <= voltage /\ voltage <= 24) THEN Result(d, NoLog, TRUE)
    ELSE
      LET d1 == PinDisableAllFeatures(d, pin)
          d2 == UioSetOpMode(d1, pin, "SET_VOLTAGE", OPERATE)
          d3 == UioSetOpMode(d2, pin, "GET_VOLTAGE", OPERATE)
          d5 == [d3 EXCEPT !.v[pin] = voltage]
      IN  IF d5.v # d5.vl
          THEN UioSendVoltageOutReq(Result(d5, NoLog, FALSE), ok)
          ELSE Result(d5, NoLog, FALSE)

\* Pin.set_voltage, ok the outcome of the immediate send if one is made
PinSetVoltage(d, pin, voltage, ok) ==
    IF ~(0 <= voltage /\ voltage <= 24) THEN Result(d, NoLog, TRUE)
    ELSE
      LET d1 == PinDisableAllFeatures(d, pin)
          d2 == UioSetOpMode(d1, pin, "SET_VOLTAGE", OPERATE)
          d3 == UioSetOpMode(d2, pin, "GET_VOLTAGE", OPERATE)
          d4 == [d3 EXCEPT !.sw["vlt_o"][pin] = TRUE]
          d5 == [d4 EXCEPT !.v[pin] = voltage]
      IN  IF d5.v # d5.vl
          THEN UioSendVoltageOutReq(Result(d5, NoLog, FALSE), ok)
          ELSE Result(d5, NoLog, FALSE)

\* A Pin.set_tx_current that validates its argument after disabling the pin.
PinSetTxCurrent_LateCheck(d, pin, current, ok) ==
    LET d1 == PinDisableAllFeatures(d, pin)
    IN  IF ~(0 <= current /\ current <= 20) THEN Result(d1, NoLog, TRUE)
        ELSE
          LET d2 == UioSetOpMode(d1, pin, "SET_CURRENT", OPERATE)
              d3 == [d2 EXCEPT !.sw["cur_o"][pin] = TRUE]
              d4 == [d3 EXCEPT !.c[pin] = current, !.cs[pin] = 0]
          IN  IF d4.c # d4.cl
              THEN UioSendCurrentOutReq(Result(d4, NoLog, FALSE), ok)
              ELSE Result(d4, NoLog, FALSE)

\* Pin.set_tx_current
PinSetTxCurrent(d, pin, current, ok) ==
    IF ~(0 <= current /\ current <= 20) THEN Result(d, NoLog, TRUE)
    ELSE
      LET d1 == PinDisableAllFeatures(d, pin)
          d2 == UioSetOpMode(d1, pin, "SET_CURRENT", OPERATE)
          d3 == [d2 EXCEPT !.sw["cur_o"][pin] = TRUE]
          d4 == [d3 EXCEPT !.c[pin] = current, !.cs[pin] = 0]
      IN  IF d4.c # d4.cl
          THEN UioSendCurrentOutReq(Result(d4, NoLog, FALSE), ok)
          ELSE Result(d4, NoLog, FALSE)

\* A set_pwm that records the voltage it was given.
PinSetPwm_CallerVoltage(d, pin, frequency, duty_cycle, voltage, ok) ==
    IF ~(0 <= frequency /\ frequency <= 5000) THEN Result(d, NoLog, TRUE)
    ELSE IF ~(0 <= duty_cycle /\ duty_cycle <= 100) THEN Result(d, NoLog, TRUE)
    ELSE
      LET d1 == PinDisableAllFeatures(d, pin)
          d2 == UioSetOpMode(d1, pin, "SET_PWM", OPERATE)
          d3 == UioSetOpMode(d2, pin, "GET_PWM", OPERATE)
          d4 == [d3 EXCEPT !.sw["pwm"][pin] = TRUE, !.sw["icu"][pin] = TRUE]
          d5 == [d4 EXCEPT !.p[pin] = <<frequency, duty_cycle, voltage>>]
      IN  IF d5.p # d5.pl
          THEN UioSendPwmOutReq(Result(d5, NoLog, FALSE), ok)
          ELSE Result(d5, NoLog, FALSE)

\* Pin.set_pwm: the voltage argument is overwritten with 5
PinSetPwm(d, pin, frequency, duty_cycle, voltage, ok) ==
    IF ~(0 <= frequency /\ frequency <= 5000) THEN Result(d, NoLog, TRUE)
    ELSE IF ~(0 <= duty_cycle /\ duty_cycle <= 100) THEN Result(d, NoLog, TRUE)
    ELSE
      LET d1 == PinDisableAllFeatures(d, pin)
          d2 == UioSetOpMode(d1, pin, "SET_PWM", OPERATE)
          d3 == UioSetOpMode(d2, pin, "GET_PWM", OPERATE)
          d4 == [d3 EXCEPT !.sw["pwm"][pin] = TRUE, !.sw["icu"][pin] = TRUE]
          d5 == [d4 EXCEPT !.p[pin] = <<frequency, duty_cycle, 5>>]
      IN  IF d5.p # d5.pl
          THEN UioSendPwmOutReq(Result(d5, NoLog, FALSE), ok)
          ELSE Result(d5, NoLog, FALSE)

\* Pin.get_tx_current: return self.state.current.set_value
PinGetTxCurrent(d, pin) == d.cs[pin]

\* Pin.get_voltage: enables GET_VOLTAGE in the op-mode table
PinGetVoltage(d, pin) == UioSetOpMode(d, pin, "GET_VOLTAGE", OPERATE)

\* Pin.get_rx_current: switches the pin to current input
PinGetRxCurrent(d, pin) ==
    LET d1 == PinDisableAllFeatures(d, pin)
        d2 == UioSetOpMode(d1, pin, "GET_CURRENT", OPERATE)
    IN  [d2 EXCEPT !.sw["cur_i"][pin] = TRUE]

\* Pin.set_relay: closed = (state == RelayState.CLOSED)
PinSetRelay(d, pin, closed, ok) ==
    UioSendSwitchOutputReq(
        Result([d EXCEPT !.sw["vlt_o"][pin] = closed], NoLog, FALSE), ok)

\* SWITCH_OUTPUT_ANS contents offered by the module: every sel_* signal 0,
\* every sel_* signal 1.
SwitchAnsInputs == {[x \in SwitchKeys \X Pins |-> b] : b \in {0, 1}}

\* DeviceUIO._handle_switch_output
UioHandleSwitchOutput(d, decoded) ==
    [d EXCEPT !.sw = [k \in SwitchKeys |-> [i \in Pins |->
        IF <<k, i>> \in DOMAIN decoded THEN decoded[<<k, i>>] # 0 ELSE d.sw[k][i]]]]

\* ------------------------------------------------------------- DeviceELoad

\* <<channel, current>> for ELoadChannel.set_current.
ELoadCurrentArgs == ({0} \X {5, 10}) \cup ((Pins \ {0}) \X {5})
                    \cup {<<8, 5>>, <<0, -1>>, <<0, 11>>}
\* <<channel, voltage>> for ELoadChannel.set_voltage.
ELoadVoltageArgs == ({0} \X {12, 24}) \cup ((Pins \ {0}) \X {12})
                    \cup {<<-1, 12>>, <<0, -1>>, <<0, 25>>}
\* relay_id for DeviceELoad.set_relay.
RelayArgs == {-1, 3, 4}
Relays == 0 .. 3

\* DeviceELoad.__init__
ELoadInit ==
    [op |-> [i \in Pins |-> EmptyDict],
     v  |-> [i \in Pins |-> 0],
     c  |-> [i \in Pins |-> 0],
     vl |-> [i \in Pins |-> 0],
     cl |-> [i \in Pins |-> 0],
     relay |-> [r \in Relays |-> FALSE]]

\* DeviceELoad._set_op_mode
ELoadSetOpMode(d, ch, f, s) == [d EXCEPT !.op[ch] = DictSet(@, f, s)]

\* Signals of OP_MODE_REQ as DeviceELoad._send_op_mode_req renders them.
ELoadOpModeData(d) ==
    [x \in {OpModePrefix[f] : f \in Features} \X Pins |->
        LET f == CHOOSE g \in Features : OpModePrefix[g] = x[1]
        IN  IF f \in DOMAIN d.op[x[2]] THEN d.op[x[2]][f] ELSE DISABLED]

\* DeviceELoad._send_op_mode_req
ELoadSendOpModeReq(st, ok) ==
    [st EXCEPT !.log = SendCanMessage(@, "OP_MODE_REQ", ELoadOpModeData(st.d), ok)]

\* DeviceELoad._send_voltage_out_req
ELoadSendVoltageOutReq(st, ok) ==
    [d   |-> IF ok THEN [st.d EXCEPT !.vl = st.d.v] ELSE st.d,
     log |-> SendCanMessage(st.log, "VOLTAGE_ELM_OUT_VAL_REQ", st.d.v, ok),
     raised |-> st.raised]

\* A _send_current_out_req that records the values before the send is known
\* to have succeeded.
ELoadSendCurrentOutReq_EagerMirror(st, ok) ==
    [d   |-> [st.d EXCEPT !.cl = st.d.c],
     log |-> SendCanMessage(st.log, "CUR_ELM_OUT_VAL_REQ", st.d.c, ok),
     raised |-> st.raised]

\* DeviceELoad._send_current_out_req
ELoadSendCurrentOutReq(st, ok) ==
    [d   |-> IF ok THEN [st.d EXCEPT !.cl = st.d.c] ELSE st.d,
     log |-> SendCanMessage(st.log, "CUR_ELM_OUT_VAL_REQ", st.d.c, ok),
     raised |-> st.raised]

\* DeviceELoad._send_switch_relay_req
ELoadSendSwitchRelayReq(st, ok) ==
    [st EXCEPT !.log = SendCanMessage(@, "SWITCH_ELM_DOUT_REQ",
                                      [r \in Relays |-> IF st.d.relay[r] THEN 1 ELSE 0], ok)]

\* DeviceELoad._send_all_parameters
ELoadSendAllParameters(d, oks) ==
    ELoadSendCurrentOutReq(
      ELoadSendVoltageOutReq(
        ELoadSendOpModeReq(Result(d, NoLog, FALSE), oks[1]),
        oks[2]),
      oks[3])

\* ELoadChannel.set_current
ChannelSetCurrent(d, ch, current, ok) ==
    IF ~(0 <= current /\ current <= 10) THEN Result(d, NoLog, TRUE)
    ELSE
      LET d1 == ELoadSetOpMode(d, ch, "SET_CURRENT", OPERATE)
          d2 == ELoadSetOpMode(d1, ch, "GET_CURRENT", OPERATE)
          d3 == ELoadSetOpMode(d2, ch, "SET_VOLTAGE", DISABLED)
          d4 == ELoadSetOpMode(d3, ch, "GET_VOLTAGE", OPERATE)
          d5 == [d4 EXCEPT !.c[ch] = current]
          d6 == [d5 EXCEPT !.v[ch] = 0]
      IN  IF d6.c # d6.cl
          THEN ELoadSendCurrentOutReq(Result(d6, NoLog, FALSE), ok)
          ELSE Result(d6, NoLog, FALSE)

\* An ELoadChannel.set_voltage that leaves the current set-point in place.
ChannelSetVoltage_KeepCurrent(d, ch, voltage, ok) ==
    IF ~(0 <= voltage /\ voltage <= 24) THEN Result(d, NoLog, TRUE)
    ELSE
      LET d1 == ELoadSetOpMode(d, ch, "SET_VOLTAGE", OPERATE)
          d2 == ELoadSetOpMode(d1, ch, "GET_VOLTAGE", OPERATE)
          d3 == ELoadSetOpMode(d2, ch, "SET_CURRENT", DISABLED)
          d4 == ELoadSetOpMode(d3, ch, "GET_CURRENT", DISABLED)
          d5 == [d4 EXCEPT !.v[ch] = voltage]
      IN  IF d5.v # d5.vl
          THEN ELoadSendVoltageOutReq(Result(d5, NoLog, FALSE), ok)
          ELSE Result(d5, NoLog, FALSE)

\* ELoadChannel.set_voltage
ChannelSetVoltage(d, ch, voltage, ok) ==
    IF ~(0 <= voltage /\ voltage <= 24) THEN Result(d, NoLog, TRUE)
    ELSE
      LET d1 == ELoadSetOpMode(d, ch, "SET_VOLTAGE", OPERATE)
          d2 == ELoadSetOpMode(d1, ch, "GET_VOLTAGE", OPERATE)
          d3 == ELoadSetOpMode(d2, ch, "SET_CURRENT", DISABLED)
          d4 == ELoadSetOpMode(d3, ch, "GET_CURRENT", DISABLED)
          d5 == [d4 EXCEPT !.v[ch] = voltage]
          d6 == [d5 EXCEPT !.c[ch] = 0]
      IN  IF d6.v # d6.vl
          THEN ELoadSendVoltageOutReq(Result(d6, NoLog, FALSE), ok)
          ELSE Result(d6, NoLog, FALSE)

\* ELoadChannel.disable
ChannelDisable(d, ch, ok) == ChannelSetCurrent(d, ch, 0, ok)

\* DeviceELoad.set_relay
ELoadSetRelay(d, relay_id, closed, ok) ==
    IF ~(0 <= relay_id /\ relay_id <= 3) THEN Result(d, NoLog, TRUE)
    ELSE ELoadSendSwitchRelayReq(
            Result([d EXCEPT !.relay[relay_id] = closed], NoLog, FALSE), ok)

\* ------------------------------------------------------------- DeviceIfMux

\* CANSpeed members offered to set_speed.
SpeedArgs == {125000, 500000, 1000000, 2000000}

\* DeviceIfMux.__init__
IfMuxInit ==
    [speeds     |-> [i \in Pins |-> 0],
     speeds_fd  |-> [i \in Pins |-> 0],
     speeds_l   |-> [i \in Pins |-> 0],
     speeds_fd_l |-> [i \in Pins |-> 0],
     mux_int    |-> [i \in Pins |-> 0]]

\* Signals of CAN_INFO_REQ: the classic and the FD speed code of each channel.
CanInfoData(d) == [speed |-> d.speeds, speed_fd |-> d.speeds_fd]

\* DeviceIfMux._send_can_info_req
IfMuxSendCanInfoReq(st, ok) ==
    [d   |-> IF ok THEN [st.d EXCEPT !.speeds_l = st.d.speeds,
                                     !.speeds_fd_l = st.d.speeds_fd]
             ELSE st.d,
     log |-> SendCanMessage(st.log, "CAN_INFO_REQ", CanInfoData(st.d), ok),
     raised |-> st.raised]

\* DeviceIfMux._send_can_mux_req
IfMuxSendCanMuxReq(st, ok) ==
    [st EXCEPT !.log = SendCanMessage(@, "CAN_MUX_REQ", st.d.mux_int, ok)]

\* DeviceIfMux._request_can_states: the periodic CAN_INFO_REQ, mirrors untouched
IfMuxRequestCanStates(d, ok) ==
    Result(d, SendCanMessage(NoLog, "CAN_INFO_REQ", CanInfoData(d), ok), FALSE)

\* The speed codes CANChannel.set_speed stores for a CANSpeed value.
FdCode(speed) ==
    CASE speed = 1000000 -> 1
      [] speed = 2000000 -> 2
      [] speed = 4000000 -> 3
      [] speed = 5000000 -> 4
      [] speed = 8000000 -> 5

ClassicCode(speed) ==
    IF speed = 250000 THEN 1
    ELSE IF speed = 500000 THEN 2
    ELSE IF speed = 1000000 THEN 3
    ELSE 0

\* CANChannel.set_speed
ChannelSetSpeed(d, ch, speed, ok) ==
    LET d1 == IF speed >= 1000000
              THEN [d EXCEPT !.speeds[ch] = 0, !.speeds_fd[ch] = FdCode(speed)]
              ELSE [d EXCEPT !.speeds_fd[ch] = 0, !.speeds[ch] = ClassicCode(speed)]
    IN  IF d1.speeds # d1.speeds_l \/ d1.speeds_fd # d1.speeds_fd_l
        THEN IfMuxSendCanInfoReq(Result(d1, NoLog, FALSE), ok)
        ELSE Result(d1, NoLog, FALSE)

\* CANChannel.set_internal_relay
ChannelSetInternalRelay(d, ch, closed, ok) ==
    IfMuxSendCanMuxReq(
        Result([d EXCEPT !.mux_int[ch] = IF closed THEN 1 ELSE 0], NoLog, FALSE), ok)

\* ------------------------------------------------------------- TaskMonitor

\* Scheduler threads that may exist at once.
MaxThreads == 2
\* Last instant of the clock.
MaxTime == 1
\* Callbacks stop raising once a task's error_count has reached this.
MaxErrors == 11

\* "if task.error_count >= 10" of _run.
ErrorLimit == 10

Threads == 1 .. MaxThreads
NoThread == 0

\* Names given to add_task and the other task calls.
TaskNames == {"t1"}
\* period_us values given to add_task, in clock units.
PeriodArgs == {0, 1}

\* The Task dataclass as add_task constructs it.
Task(name, period_us, last_run) ==
    [name |-> name, period_us |-> period_us, last_run |-> last_run,
     enabled |-> TRUE, error_count |-> 0]

\* TaskMonitor.__init__
TMInit ==
    /\ tasks = << >>
    /\ running = FALSE
    /\ thread = NoThread
    /\ pc = [t \in Threads |-> "none"]
    /\ current_time = [t \in Threads |-> 0]
    /\ tasks_to_execute = [t \in Threads |-> << >>]
    /\ iter_size = [t \in Threads |-> 0]
    /\ now = 0
    /\ starting = 0
    /\ joining = NoThread
    /\ auto_disabled = {}
    /\ stop_joined = FALSE

\* ------------------------------------------------- device specification

\* Outcomes the environment may give one send: success always, failure while
\* fewer than MaxFails attempted sends have failed.
Outcomes == IF fails < MaxFails THEN {TRUE, FALSE} ELSE {TRUE}

\* Outcomes of the n sends of a periodic snapshot, within the same budget.
TickOutcomes(n) ==
    {oks \in [1 .. n -> BOOLEAN] :
        Cardinality({i \in 1 .. n : ~oks[i]}) <= MaxFails - fails}

\* Attempted sends of a log that did not reach the wire.
Failed(log) == Len(log.tried) - Len(log.sent)

NoSetter == [pin |-> -1, v |-> -1]

\* What is remembered of a call.
Call(op, idx, args, raised) == [op |-> op, idx |-> idx, args |-> args, raised |-> raised]

\* Calls that are setters of an output (value or relay).
SetterOps == {"set_voltage", "set_tx_current", "set_pwm", "set_relay",
              "set_current", "disable", "set_speed", "set_internal_relay"}

\* TaskMonitor.add_task (last_run = time.time()) at start(), which also sends
\* the first MODULE_INFO_REQ itself.
CadInit ==
    /\ clock = 0
    /\ hb_last = 0
    /\ snap_last = 0
    /\ hb_gap = 0
    /\ snap_gap = 0
    /\ hb_count = 1
    /\ snap_count = 0

\* Threads that send through the transport of one device: the caller of the
\* API and the scheduler thread of its task monitor.
Senders == {"caller", "scheduler"}

\* AVTPBuilder.__init__: sequence_number = 0.
SeqInit ==
    /\ sequence_number = 0
    /\ seq_pc = [t \in Senders |-> "idle"]
    /\ seq_frame = [t \in Senders |-> 0]
    /\ seq_tmp = [t \in Senders |-> 0]
    /\ seq_started = 0
    /\ wire_last = 0
    /\ wire_any = FALSE

\* Ethernet header (14 bytes) and AVTP header (12 bytes).
HeaderLen == 26
ETH_P_TSN == 8944      \* 0x22F0
NTSCF_SUBTYPE == 130   \* 0x82

\* Frames: total length in bytes, whether the source MAC is the device's,
\* ethertype, subtype, the 11-bit data_length, and the two bytes <<hi, lo>> at
\* the start of every quadlet after the headers (the only payload bytes the
\* loop over ACF blocks reads).
FrameLens == {20, 26, 30, 34}
EtherTypes == {ETH_P_TSN, 2048}
SubTypes == {NTSCF_SUBTYPE, 0}
DataLengths == {4, 8, 200}
AcfHeaders == {0, 1} \X {0, 1, 2}
Quadlets(len) == IF len <= HeaderLen THEN 0 ELSE (len - HeaderLen + 3) \div 4
RxFrames ==
    UNION {[len : {l}, mac_ok : BOOLEAN, ethertype : EtherTypes, subtype : SubTypes,
            data_length : DataLengths, acf : [1 .. Quadlets(l) -> AcfHeaders]]
           : l \in FrameLens}
NoFrame ==
    [len |-> 0, mac_ok |-> FALSE, ethertype |-> 0, subtype |-> 0, data_length |-> 0,
     acf |-> << >>]

\* DeviceSDR.__init__ / DeviceManager.__init__: nothing received yet.
RxInit ==
    /\ rx_pc = "idle"
    /\ rx_who = "device"
    /\ rx_frame = NoFrame
    /\ rx_verdict = "none"
    /\ rx_offset = HeaderLen
    /\ rx_iters = 0
    /\ rx_blocks = << >>
    /\ rx_handled = 0
    /\ rx_count = 0
    /\ rx_health = [message_count |-> 0, error_count |-> 0]

\* The return value of a call that returns nothing.
None == 0

SdkCall(op, mac, ret, raised) == [op |-> op, mac |-> mac, ret |-> ret, raised |-> raised]

\* SDRIG.__init__: no device connected.
SdkInit ==
    /\ sdk_devices = << >>
    /\ sdk_objects = << >>
    /\ sdk_call = SdkCall("init", << >>, None, FALSE)

\* A dict with no key.
NoDevices == [m \in {} |-> [info |-> FALSE, ex |-> FALSE]]

\* DeviceManager.__init__: self.devices = {}, receiver not started.
DiscInit ==
    /\ disc_pc = "idle"
    /\ disc_devices = NoDevices
    /\ disc_receiving = FALSE
    /\ disc_frames = 0
    /\ disc_timeout = 0
    /\ disc_waited = 0
    /\ disc_info = {}
    /\ disc_ex = {}
    /\ disc_answers = 0
    /\ disc_calls = 0
    /\ disc_call = [done |-> FALSE, raised |-> FALSE, ret |-> NoDevices]

\* No codec call under way.
NoCodec == [op |-> "none"]

CodecInit ==
    /\ cdc_in = NoCodec
    /\ cdc_out = NoCodec
    /\ cdc_done = FALSE

\* What is remembered of a message of the scheduler: its data, the shadow at
\* the start of the setter call under way when it was built (mid), that call's
\* argument.
Seen(data, before, arg, mid) == [data |-> data, before |-> before, arg |-> arg, mid |-> mid]

RaceInit ==
    /\ rc_set_pc = "idle"
    /\ rc_set_arg = 0
    /\ rc_set_todo = << >>
    /\ rc_set_calls = 0
    /\ rc_before = UioInit
    /\ rc_skipped = FALSE
    /\ rc_tick_pc = "idle"
    /\ rc_tick_keys = {}
    /\ rc_tick_data = UioInit.v
    /\ rc_ticks = 0
    /\ rc_tick_raised = FALSE
    /\ rc_seen_op = Seen(UioOpModeData(UioInit), UioInit, 0, FALSE)
    /\ rc_seen_sw = Seen(UioSwitchData(UioInit), UioInit, 0, FALSE)
    /\ rc_carried = {}

\* Names of the tasks followed, in dict order.
SchedNames == <<"a", "b">>

\* No time recorded yet: -1.
NoTimes == [prev |-> -1, last |-> -1, count |-> 0]

\* Two tasks added at time 0, the scheduler at the top of its loop.
SchedStart(periods) ==
    /\ sch_now = 0
    /\ sch_tasks = [n \in {"a", "b"} |-> [period |-> periods[n], last_run |-> 0]]
    /\ sch_pc = "top"
    /\ sch_ct = 0
    /\ sch_queue = << >>
    /\ sch_sel = [n \in {"a", "b"} |-> NoTimes]
    /\ sch_inv = [n \in {"a", "b"} |-> NoTimes]

SchedInit == SchedStart([n \in {"a", "b"} |-> 1])

ExtInit == CadInit /\ SeqInit /\ RxInit /\ SdkInit /\ DiscInit /\ CodecInit /\ RaceInit /\ SchedInit /\ CbInit

\* The device objects and the logs after construction.
DevFresh ==
    /\ uio = UioInit
    /\ eload = ELoadInit
    /\ ifmux = IfMuxInit
    /\ call = Call("init", 0, << >>, FALSE)
    /\ tried = << >>
    /\ sent = << >>
    /\ armed = NoSetter
    /\ fails = 0

DevInit == kind \in DeviceKinds /\ DevFresh

\* The effect of one call on the observed device and on the logs.
Finish(op, idx, args, r) ==
    /\ call' = Call(op, idx, args, r.raised)
    /\ tried' = r.log.tried
    /\ sent' = r.log.sent
    /\ fails' = fails + Failed(r.log)
    /\ armed' = IF op \notin SetterOps THEN armed
                ELSE IF kind = "UIO" /\ op = "set_voltage" /\ ~r.raised
                        /\ (r.log.sent = <<Frame("VOLTAGE_OUT_VAL_REQ", r.d.v)>>
                            \/ armed = [pin |-> idx, v |-> args[1]])
                     THEN [pin |-> idx, v |-> args[1]]
                     ELSE NoSetter
    /\ UNCHANGED kind

UioCall(op, idx, args, r) ==
    /\ kind = "UIO"
    /\ uio' = r.d
    /\ Finish(op, idx, args, r)
    /\ UNCHANGED <<eload, ifmux>>
    /\ UNCHANGED <<tmVars, extVars>>

ELoadCall(op, idx, args, r) ==
    /\ kind = "ELoad"
    /\ eload' = r.d
    /\ Finish(op, idx, args, r)
    /\ UNCHANGED <<uio, ifmux>>
    /\ UNCHANGED <<tmVars, extVars>>

IfMuxCall(op, idx, args, r) ==
    /\ kind = "IfMux"
    /\ ifmux' = r.d
    /\ Finish(op, idx, args, r)
    /\ UNCHANGED <<uio, eload>>
    /\ UNCHANGED <<tmVars, extVars>>

\* device.pin(i).<method>(...) / device.channel(i).<method>(...): the index
\* check of pin() / channel() comes first.
OnPin(d, idx, r) == IF PinIndexOk(idx) THEN r ELSE Result(d, NoLog, TRUE)

UioSetVoltage ==
    \E a \in VoltageArgs, ok \in Outcomes :
        UioCall("set_voltage", a[1], <<a[2]>>,
                OnPin(uio, a[1], PinSetVoltage(uio, a[1], a[2], ok)))

UioSetTxCurrent ==
    \E a \in UioCurrentArgs, ok \in Outcomes :
        UioCall("set_tx_current", a[1], <<a[2]>>,
                OnPin(uio, a[1], PinSetTxCurrent(uio, a[1], a[2], ok)))

UioSetPwm ==
    \E a \in PwmArgs, ok \in Outcomes :
        UioCall("set_pwm", a[1], <<a[2], a[3], a[4]>>,
                OnPin(uio, a[1], PinSetPwm(uio, a[1], a[2], a[3], a[4], ok)))

UioGetVoltage ==
    \E pin \in AccessorPins :
        UioCall("get_voltage", pin, << >>, Result(PinGetVoltage(uio, pin), NoLog, FALSE))

UioGetRxCurrent ==
    \E pin \in AccessorPins :
        UioCall("get_rx_current", pin, << >>, Result(PinGetRxCurrent(uio, pin), NoLog, FALSE))

UioDisableAllFeatures ==
    \E pin \in AccessorPins :
        UioCall("disable_all_features", pin, << >>,
                Result(PinDisableAllFeatures(uio, pin), NoLog, FALSE))

UioRxSwitchOutput ==
    \E decoded \in SwitchAnsInputs :
        UioCall("handle_switch_output", 0, << >>,
                Result(UioHandleSwitchOutput(uio, decoded), NoLog, FALSE))

\* The "all_parameters" periodic task of a UIO device.
UioTick ==
    \E oks \in TickOutcomes(5) :
        UioCall("tick", 0, << >>, UioSendAllParameters(uio, oks))

ELoadSetCurrent ==
    \E a \in ELoadCurrentArgs, ok \in Outcomes :
        ELoadCall("set_current", a[1], <<a[2]>>,
                  OnPin(eload, a[1], ChannelSetCurrent(eload, a[1], a[2], ok)))

ELoadSetVoltage ==
    \E a \in ELoadVoltageArgs, ok \in Outcomes :
        ELoadCall("set_voltage", a[1], <<a[2]>>,
                  OnPin(eload, a[1], ChannelSetVoltage(eload, a[1], a[2], ok)))

ELoadDisable ==
    \E ch \in Pins, ok \in Outcomes :
        ELoadCall("disable", ch, << >>, ChannelDisable(eload, ch, ok))

ELoadRelay ==
    \E r \in RelayArgs, closed \in BOOLEAN, ok \in Outcomes :
        ELoadCall("set_relay", r, <<closed>>, ELoadSetRelay(eload, r, closed, ok))

\* The "all_parameters" periodic task of an ELoad device.
ELoadTick ==
    \E oks \in TickOutcomes(3) :
        ELoadCall("tick", 0, << >>, ELoadSendAllParameters(eload, oks))

IfMuxSetSpeed ==
    \E ch \in Pins, speed \in SpeedArgs, ok \in Outcomes :
        IfMuxCall("set_speed", ch, <<speed>>, ChannelSetSpeed(ifmux, ch, speed, ok))

IfMuxSetInternalRelay ==
    \E ch \in Pins, closed \in BOOLEAN, ok \in Outcomes :
        IfMuxCall("set_internal_relay", ch, <<closed>>,
                  ChannelSetInternalRelay(ifmux, ch, closed, ok))

\* The "can_states" periodic task of an IfMux device.
IfMuxTick ==
    \E ok \in Outcomes :
        IfMuxCall("tick", 0, << >>, IfMuxRequestCanStates(ifmux, ok))

DevNext ==
    \/ UioSetVoltage
    \/ UioSetTxCurrent
    \/ UioSetPwm
    \/ UioGetVoltage
    \/ UioGetRxCurrent
    \/ UioDisableAllFeatures
    \/ UioRxSwitchOutput
    \/ UioTick
    \/ ELoadSetCurrent
    \/ ELoadSetVoltage
    \/ ELoadDisable
    \/ ELoadRelay
    \/ ELoadTick
    \/ IfMuxSetSpeed
    \/ IfMuxSetInternalRelay
    \/ IfMuxTick

\* A device under its API, its handlers and its periodic task; its monitor is
\* left as constructed.
InitDev == DevInit /\ TMInit /\ ExtInit

SpecDev == InitDev /\ [][DevNext]_vars

\* ------------------------------------------------------ device properties

\* PGNs of the frames of a log, in order.
Pgns(frames) == [i \in 1 .. Len(frames) |-> frames[i].pgn]

\* Whether a send of pgn was attempted / reached the wire in the last call.
Tried(pgn) == \E i \in 1 .. Len(tried) : tried[i] = pgn
Sent(pgn) == \E i \in 1 .. Len(sent) : sent[i].pgn = pgn

\* The user-visible shadow of a UIO device (everything but the mirrors).
UioShadow(d) == [op |-> d.op, sw |-> d.sw, v |-> d.v, c |-> d.c, p |-> d.p]

UioSetVoltageDone == kind = "UIO" /\ call.op = "set_voltage" /\ ~call.raised

\* C1 (as claimed): a UIO set_voltage that changes the pin's state emits
\* OP_MODE_REQ, then SWITCH_OUTPUT_REQ, then VOLTAGE_OUT_VAL_REQ before it
\* returns.  The code attempts at most the VOLTAGE_OUT_VAL_REQ.
C1_ThreePhaseOrder ==
    [][(kind = "UIO" /\ call'.op = "set_voltage" /\ ~call'.raised
        /\ UioShadow(uio') # UioShadow(uio))
       => tried' = <<"OP_MODE_REQ", "SWITCH_OUTPUT_REQ", "VOLTAGE_OUT_VAL_REQ">>]_devVars

\* PGNs of the UIO periodic snapshot, in the order of _send_all_parameters.
UioSnapshotPgns ==
    <<"OP_MODE_REQ", "VOLTAGE_OUT_VAL_REQ", "CUR_LOOP_OUT_VAL_REQ",
      "PWM_OUT_VAL_REQ", "SWITCH_OUTPUT_REQ">>

\* What a UIO frame of the given PGN carries when rendered from device d.
UioRender(d, pgn) ==
    CASE pgn = "OP_MODE_REQ"          -> UioOpModeData(d)
      [] pgn = "VOLTAGE_OUT_VAL_REQ"  -> d.v
      [] pgn = "CUR_LOOP_OUT_VAL_REQ" -> d.c
      [] pgn = "PWM_OUT_VAL_REQ"      -> d.p
      [] pgn = "SWITCH_OUTPUT_REQ"    -> UioSwitchData(d)

\* C2: after a set_voltage(p, v) whose immediate VOLTAGE_OUT_VAL_REQ reached
\* the wire, and with no other setter since (ticks, accessors and inbound
\* messages may have come), an identical set_voltage(p, v) attempts no send;
\* and every periodic tick attempts the five snapshot messages in order, each
\* one that gets through carrying the current shadow, all five getting through
\* when no send fails.
C2_RepeatSendsNothing ==
    /\ armed # NoSetter =>
          /\ PinSetVoltage(uio, armed.pin, armed.v, TRUE).log.tried = << >>
          /\ (call.op = "set_voltage" /\ call.idx = armed.pin /\ ~call.raised
              /\ sent # <<Frame("VOLTAGE_OUT_VAL_REQ", uio.v)>>) => tried = << >>
    /\ (kind = "UIO" /\ call.op = "tick") =>
          /\ tried = UioSnapshotPgns
          /\ \A i \in 1 .. Len(sent) : sent[i] = Frame(sent[i].pgn, UioRender(uio, sent[i].pgn))
          /\ \A i, j \in 1 .. Len(sent) : i < j =>
                \E a, b \in 1 .. 5 : a < b /\ UioSnapshotPgns[a] = sent[i].pgn
                                          /\ UioSnapshotPgns[b] = sent[j].pgn
          /\ Len(sent) >= 5 - fails

\* C2 witness: the identical second call has returned without a send.
C2_Witness ==
    /\ armed # NoSetter
    /\ call = Call("set_voltage", armed.pin, <<armed.v>>, FALSE)
    /\ tried = << >>

\* C3 (as claimed): after a setter returns, every value vector it wrote either
\* equals its last-sent mirror or had its value message attempted in the call.
\* ELoad set_current / set_voltage reset the opposite vector without sending it.
\* Stated for runs in which no send has failed.
C3_EveryWrittenVectorSent ==
    fails = 0 =>
    /\ (kind = "UIO" /\ ~call.raised) =>
          /\ call.op = "set_voltage" => (uio.v = uio.vl \/ Tried("VOLTAGE_OUT_VAL_REQ"))
          /\ call.op = "set_tx_current" => (uio.c = uio.cl \/ Tried("CUR_LOOP_OUT_VAL_REQ"))
          /\ call.op = "set_pwm" => (uio.p = uio.pl \/ Tried("PWM_OUT_VAL_REQ"))
    /\ (kind = "ELoad" /\ ~call.raised /\ call.op \in {"set_current", "set_voltage", "disable"}) =>
          /\ eload.c = eload.cl \/ Tried("CUR_ELM_OUT_VAL_REQ")
          /\ eload.v = eload.vl \/ Tried("VOLTAGE_ELM_OUT_VAL_REQ")
    /\ (kind = "IfMux" /\ call.op = "set_speed") =>
          \/ (ifmux.speeds = ifmux.speeds_l /\ ifmux.speeds_fd = ifmux.speeds_fd_l)
          \/ Tried("CAN_INFO_REQ")

\* Whether feature f of ELoad channel ch is in Operate.
ELoadOperate(d, ch, f) == f \in DOMAIN d.op[ch] /\ d.op[ch][f] = OPERATE

\* C4: on an ELoad, in every reachable state, no channel has both SET_VOLTAGE
\* and SET_CURRENT in Operate; a feature of the two that is not in Operate has
\* set-value 0 and is Disabled (its op-mode entry is Disabled, or absent and
\* rendered Disabled, the latter only before the first setter on the channel);
\* after set_voltage(c, v): voltages_out[c] = v, currents_out[c] = 0 and
\* SET_CURRENT is Disabled; after set_current(c, i) symmetrically.
C4_ELoadExclusive ==
    kind = "ELoad" =>
      /\ \A ch \in Pins :
            /\ ~(ELoadOperate(eload, ch, "SET_VOLTAGE") /\ ELoadOperate(eload, ch, "SET_CURRENT"))
            /\ ~ELoadOperate(eload, ch, "SET_VOLTAGE") =>
                  /\ eload.v[ch] = 0
                  /\ ELoadOpModeData(eload)[<<"vlt_o", ch>>] = DISABLED
            /\ ~ELoadOperate(eload, ch, "SET_CURRENT") =>
                  /\ eload.c[ch] = 0
                  /\ ELoadOpModeData(eload)[<<"cur_o", ch>>] = DISABLED
            /\ DOMAIN eload.op[ch] = {} \/
                  {"SET_VOLTAGE", "SET_CURRENT"} \subseteq DOMAIN eload.op[ch]
      /\ (call.op = "set_voltage" /\ ~call.raised) =>
            /\ eload.v[call.idx] = call.args[1]
            /\ eload.c[call.idx] = 0
            /\ eload.op[call.idx]["SET_VOLTAGE"] = OPERATE
            /\ eload.op[call.idx]["SET_CURRENT"] = DISABLED
      /\ (call.op = "set_current" /\ ~call.raised) =>
            /\ eload.c[call.idx] = call.args[1]
            /\ eload.v[call.idx] = 0
            /\ eload.op[call.idx]["SET_CURRENT"] = OPERATE
            /\ eload.op[call.idx]["SET_VOLTAGE"] = DISABLED

\* C4 witness: set_voltage(c, v) has returned on a channel whose current had
\* been set (and sent) before.
C4_Witness ==
    /\ kind = "ELoad" /\ call.op = "set_voltage" /\ ~call.raised
    /\ call.args[1] > 0
    /\ eload.cl[call.idx] > 0

\* C5: after set_voltage(p, v) on a UIO pin with 0 <= v <= 24 (which does not
\* raise): voltages_out[p] = v, the vlt_o switch of p is closed and SET_VOLTAGE
\* of p is Operate.
C5_SetVoltagePost ==
    (kind = "UIO" /\ call.op = "set_voltage") =>
      /\ (PinIndexOk(call.idx) /\ 0 <= call.args[1] /\ call.args[1] <= 24) => ~call.raised
      /\ ~call.raised =>
            /\ uio.v[call.idx] = call.args[1]
            /\ uio.sw["vlt_o"][call.idx]
            /\ uio.op[call.idx]["SET_VOLTAGE"] = OPERATE

\* C5 witness: set_voltage has returned on a pin that was in current-output
\* mode before (its current value is still in the shadow).
C5_Witness ==
    /\ UioSetVoltageDone
    /\ uio.c[call.idx] > 0
    /\ call.args[1] = 24

\* Whether the arguments of the last setter call are all within range.
ArgsInRange ==
    CASE kind = "UIO" /\ call.op = "set_voltage" ->
            PinIndexOk(call.idx) /\ 0 <= call.args[1] /\ call.args[1] <= 24
      [] kind = "UIO" /\ call.op = "set_tx_current" ->
            PinIndexOk(call.idx) /\ 0 <= call.args[1] /\ call.args[1] <= 20
      [] kind = "UIO" /\ call.op = "set_pwm" ->
            /\ PinIndexOk(call.idx)
            /\ 0 <= call.args[1] /\ call.args[1] <= 5000
            /\ 0 <= call.args[2] /\ call.args[2] <= 100
      [] kind = "ELoad" /\ call.op = "set_current" ->
            PinIndexOk(call.idx) /\ 0 <= call.args[1] /\ call.args[1] <= 10
      [] kind = "ELoad" /\ call.op = "set_voltage" ->
            PinIndexOk(call.idx) /\ 0 <= call.args[1] /\ call.args[1] <= 24
      [] kind = "ELoad" /\ call.op = "set_relay" -> call.idx \in 0 .. 3
      [] OTHER -> TRUE

\* C6: a setter raises exactly when an argument (value, duty, relay id, pin or
\* channel index) is out of range, so set_voltage(p, 0) and set_voltage(p, 24)
\* are accepted; and a call that raises leaves op-modes, switches, value
\* vectors and mirrors as they were and attempts no send.
C6_FailFast ==
    /\ [](call.raised <=> ~ArgsInRange)
    /\ [][call'.raised =>
            /\ uio' = uio /\ eload' = eload /\ ifmux' = ifmux
            /\ tried' = << >> /\ sent' = << >>]_devVars

\* C6 witness: set_voltage(0, 25) has raised on a pin driven at 24 V.
C6_Witness ==
    /\ kind = "UIO" /\ call = Call("set_voltage", 0, <<25>>, TRUE)
    /\ uio.v[0] = 24 /\ uio.vl[0] = 24

\* PGNs of the periodic snapshot of each device class, in sending order.
SnapshotPgns ==
    CASE kind = "UIO"   -> UioSnapshotPgns
      [] kind = "ELoad" -> <<"OP_MODE_REQ", "VOLTAGE_ELM_OUT_VAL_REQ", "CUR_ELM_OUT_VAL_REQ">>
      [] kind = "IfMux" -> <<"CAN_INFO_REQ">>

\* A send of pgn was attempted by the call that ends in the primed state and
\* did not reach the wire.
FailedNow(pgn) ==
    /\ \E i \in 1 .. Len(tried') : tried'[i] = pgn
    /\ ~\E i \in 1 .. Len(sent') : sent'[i].pgn = pgn

\* The value the last setter call asked for is in the shadow.
RequestedValueKept ==
    CASE kind = "UIO" /\ call.op = "set_voltage"    -> uio.v[call.idx] = call.args[1]
      [] kind = "UIO" /\ call.op = "set_tx_current" -> uio.c[call.idx] = call.args[1]
      [] kind = "UIO" /\ call.op = "set_pwm" ->
            uio.p[call.idx] = <<call.args[1], call.args[2], 5>>
      [] kind = "ELoad" /\ call.op = "set_voltage"  -> eload.v[call.idx] = call.args[1]
      [] kind = "ELoad" /\ call.op = "set_current"  -> eload.c[call.idx] = call.args[1]
      [] kind = "ELoad" /\ call.op = "disable"      -> eload.c[call.idx] = 0
      [] kind = "IfMux" /\ call.op = "set_speed" ->
            /\ ifmux.speeds[call.idx] =
                  (IF call.args[1] >= 1000000 THEN 0 ELSE ClassicCode(call.args[1]))
            /\ ifmux.speeds_fd[call.idx] =
                  (IF call.args[1] >= 1000000 THEN FdCode(call.args[1]) ELSE 0)
      [] OTHER -> TRUE

\* C7: a call in which a send fails does not raise; a value message that
\* failed leaves its mirror as it was; a setter's requested value is in the
\* shadow whether or not its send got through, and a tick leaves the shadow
\* alone; every tick attempts every message of the snapshot, whatever failed
\* before.
C7_SendFailureContained ==
    /\ [](/\ (call.op = "tick" => (tried = SnapshotPgns /\ ~call.raised))
          /\ (~call.raised => RequestedValueKept))
    /\ [][/\ fails' > fails => ~call'.raised
          /\ FailedNow("VOLTAGE_OUT_VAL_REQ") => uio'.vl = uio.vl
          /\ FailedNow("CUR_LOOP_OUT_VAL_REQ") => uio'.cl = uio.cl
          /\ FailedNow("PWM_OUT_VAL_REQ") => uio'.pl = uio.pl
          /\ FailedNow("VOLTAGE_ELM_OUT_VAL_REQ") => eload'.vl = eload.vl
          /\ FailedNow("CUR_ELM_OUT_VAL_REQ") => eload'.cl = eload.cl
          /\ FailedNow("CAN_INFO_REQ") =>
                (ifmux'.speeds_l = ifmux.speeds_l /\ ifmux'.speeds_fd_l = ifmux.speeds_fd_l)
          /\ call'.op = "tick" =>
                /\ UioShadow(uio') = UioShadow(uio)
                /\ <<eload'.op, eload'.v, eload'.c>> = <<eload.op, eload.v, eload.c>>
                /\ <<ifmux'.speeds, ifmux'.speeds_fd>> = <<ifmux.speeds, ifmux.speeds_fd>>
         ]_devVars

\* C7 witness: a tick has re-sent, successfully, a voltage whose immediate
\* send had failed.
C7_Witness ==
    /\ kind = "UIO" /\ call.op = "tick" /\ fails = 1
    /\ Sent("VOLTAGE_OUT_VAL_REQ") /\ Len(sent) = 5
    /\ uio.v[0] = 12 /\ uio.vl[0] = 12 /\ uio.c = uio.cl /\ uio.p = uio.pl
    /\ armed = NoSetter

\* ---------------------------------------------- TaskMonitor operations

\* Index of the task called name in the dict, 0 if there is none.
IndexOf(name) ==
    IF \E i \in 1 .. Len(tasks) : tasks[i].name = name
    THEN CHOOSE i \in 1 .. Len(tasks) : tasks[i].name = name
    ELSE 0

\* The dict without the entry at index i.
Without(i) == [j \in 1 .. (Len(tasks) - 1) |-> IF j < i THEN tasks[j] ELSE tasks[j + 1]]

\* Task objects a thread still holds after the dict dropped or replaced them:
\* the entries named in names no longer refer to a task of the dict.
Orphaned(names) ==
    [t \in Threads |->
        [k \in 1 .. Len(tasks_to_execute[t]) |->
            IF tasks_to_execute[t][k].name \in names
            THEN [tasks_to_execute[t][k] EXCEPT !.live = FALSE]
            ELSE tasks_to_execute[t][k]]]

threadVars == <<pc, current_time, tasks_to_execute, iter_size>>
lifeVars == <<running, thread, starting, joining, stop_joined>>

\* TaskMonitor.add_task: the new Task replaces one of the same name in place.
AddTask ==
    \E name \in TaskNames, period_us \in PeriodArgs :
        /\ tasks' = IF IndexOf(name) = 0
                    THEN Append(tasks, Task(name, period_us, now))
                    ELSE [tasks EXCEPT ![IndexOf(name)] = Task(name, period_us, now)]
        /\ tasks_to_execute' = Orphaned({name})
        /\ auto_disabled' = auto_disabled \ {name}
        /\ UNCHANGED <<pc, current_time, iter_size, now, lifeVars, devVars, extVars>>

\* TaskMonitor.remove_task
RemoveTask ==
    \E name \in TaskNames :
        /\ IndexOf(name) # 0
        /\ tasks' = Without(IndexOf(name))
        /\ tasks_to_execute' = Orphaned({name})
        /\ auto_disabled' = auto_disabled \ {name}
        /\ UNCHANGED <<pc, current_time, iter_size, now, lifeVars, devVars, extVars>>

\* TaskMonitor.enable_task
EnableTask ==
    \E name \in TaskNames :
        /\ IndexOf(name) # 0
        /\ tasks' = [tasks EXCEPT ![IndexOf(name)].enabled = TRUE]
        /\ auto_disabled' = auto_disabled \ {name}
        /\ UNCHANGED <<threadVars, now, lifeVars, devVars, extVars>>

\* TaskMonitor.disable_task
DisableTask ==
    \E name \in TaskNames :
        /\ IndexOf(name) # 0
        /\ tasks' = [tasks EXCEPT ![IndexOf(name)].enabled = FALSE]
        /\ UNCHANGED <<threadVars, now, lifeVars, auto_disabled, devVars, extVars>>

\* TaskMonitor.clear_all_tasks
ClearAllTasks ==
    /\ tasks # << >>
    /\ tasks' = << >>
    /\ tasks_to_execute' = Orphaned(TaskNames)
    /\ auto_disabled' = {}
    /\ UNCHANGED <<pc, current_time, iter_size, now, lifeVars, devVars, extVars>>

\* TaskMonitor.start, up to and including "if self.running: return": the
\* method takes no lock, so other calls may run before it goes on.
StartCheck ==
    /\ ~running
    /\ starting < MaxThreads
    /\ starting' = starting + 1
    /\ stop_joined' = FALSE
    /\ UNCHANGED <<tasks, running, thread, joining, threadVars, now, auto_disabled, devVars, extVars>>

\* TaskMonitor.start, the rest: running = True, create and start the thread.
StartThread ==
    \E t \in Threads :
        /\ starting > 0
        /\ pc[t] \in {"none", "crashed"}
        /\ t # joining
        /\ starting' = starting - 1
        /\ running' = TRUE
        /\ thread' = t
        /\ pc' = [pc EXCEPT ![t] = "top"]
        /\ tasks_to_execute' = [tasks_to_execute EXCEPT ![t] = << >>]
        /\ stop_joined' = FALSE
        /\ UNCHANGED <<tasks, joining, current_time, iter_size, now, auto_disabled, devVars, extVars>>

\* TaskMonitor.stop up to the join: running = False, then join(timeout=5.0)
\* on self.thread if there is one.
StopBegin ==
    /\ running
    /\ joining = NoThread
    /\ running' = FALSE
    /\ joining' = thread
    /\ stop_joined' = FALSE
    /\ UNCHANGED <<tasks, thread, starting, threadVars, now, auto_disabled, devVars, extVars>>

\* TaskMonitor.stop, the join returns because the thread has ended.
StopJoined ==
    /\ joining # NoThread
    /\ pc[joining] \in {"none", "crashed"}
    /\ thread' = NoThread
    /\ joining' = NoThread
    /\ stop_joined' = (starting = 0 /\ ~running)
    /\ UNCHANGED <<tasks, running, starting, threadVars, now, auto_disabled, devVars, extVars>>

\* TaskMonitor.stop, the join times out: only a callback can keep the thread
\* for 5 seconds.
StopJoinTimeout ==
    /\ joining # NoThread
    /\ pc[joining] = "cb"
    /\ thread' = NoThread
    /\ joining' = NoThread
    /\ stop_joined' = FALSE
    /\ UNCHANGED <<tasks, running, starting, threadVars, now, auto_disabled, devVars, extVars>>

\* -------------------------------------------------- TaskMonitor._run

\* Indices of the tasks the scan of thread t finds enabled and due.
Due(t) ==
    {i \in 1 .. Len(tasks) :
        tasks[i].enabled /\ current_time[t] - tasks[i].last_run >= tasks[i].period_us}

\* The names at the indices of set S, in dict order.
RECURSIVE InOrder(_, _)
InOrder(S, i) ==
    IF i > Len(tasks) THEN << >>
    ELSE (IF i \in S THEN <<[name |-> tasks[i].name, live |-> TRUE]>> ELSE << >>)
         \o InOrder(S, i + 1)

\* Where a thread goes once it has nothing left to execute in this pass.
AfterTask(rest) == IF rest = << >> THEN "sleep_check" ELSE "run"

\* "while self.running:" and "current_time = time.time()".
RunTop(t) ==
    /\ pc[t] = "top"
    /\ IF running
       THEN /\ pc' = [pc EXCEPT ![t] = "scan"]
            /\ current_time' = [current_time EXCEPT ![t] = now]
       ELSE /\ pc' = [pc EXCEPT ![t] = "none"]
            /\ UNCHANGED current_time
    /\ UNCHANGED <<tasks, tasks_to_execute, iter_size, now, lifeVars, auto_disabled, devVars, extVars>>

\* The scan under the lock: the due tasks are collected and stamped.
RunScan(t) ==
    /\ pc[t] = "scan"
    /\ tasks' = [i \in 1 .. Len(tasks) |->
                    IF i \in Due(t) THEN [tasks[i] EXCEPT !.last_run = current_time[t]]
                    ELSE tasks[i]]
    /\ tasks_to_execute' = [tasks_to_execute EXCEPT ![t] = InOrder(Due(t), 1)]
    /\ pc' = [pc EXCEPT ![t] = AfterTask(InOrder(Due(t), 1))]
    /\ UNCHANGED <<current_time, iter_size, now, lifeVars, auto_disabled, devVars, extVars>>

\* "task.callback()" is entered, outside the lock.
RunInvoke(t) ==
    /\ pc[t] = "run"
    /\ pc' = [pc EXCEPT ![t] = "cb"]
    /\ UNCHANGED <<tasks, current_time, tasks_to_execute, iter_size, now, lifeVars,
                   auto_disabled, devVars, extVars>>

\* The callback returns: error_count = 0 under the lock.
RunCallbackReturns(t) ==
    /\ pc[t] = "cb"
    /\ LET e == Head(tasks_to_execute[t])
       IN  tasks' = IF e.live
                    THEN [tasks EXCEPT ![IndexOf(e.name)].error_count = 0]
                    ELSE tasks
    /\ tasks_to_execute' = [tasks_to_execute EXCEPT ![t] = Tail(@)]
    /\ pc' = [pc EXCEPT ![t] = AfterTask(Tail(tasks_to_execute[t]))]
    /\ UNCHANGED <<current_time, iter_size, now, lifeVars, auto_disabled, devVars, extVars>>

\* The callback raises: error_count += 1 and the task is disabled at the limit,
\* under the lock.
RunCallbackRaises(t) ==
    /\ pc[t] = "cb"
    /\ LET e == Head(tasks_to_execute[t])
           i == IndexOf(e.name)
       IN  IF e.live
           THEN /\ tasks[i].error_count < MaxErrors
                /\ tasks' = [tasks EXCEPT
                      ![i].error_count = @ + 1,
                      ![i].enabled = IF tasks[i].error_count + 1 >= ErrorLimit
                                     THEN FALSE ELSE @]
                /\ auto_disabled' = IF tasks[i].error_count + 1 >= ErrorLimit
                                    THEN auto_disabled \cup {e.name}
                                    ELSE auto_disabled
           ELSE UNCHANGED <<tasks, auto_disabled>>
    /\ tasks_to_execute' = [tasks_to_execute EXCEPT ![t] = Tail(@)]
    /\ pc' = [pc EXCEPT ![t] = AfterTask(Tail(tasks_to_execute[t]))]
    /\ UNCHANGED <<current_time, iter_size, now, lifeVars, devVars, extVars>>

\* "if self.tasks:" without the lock; an empty dict goes straight to the sleep.
RunSleepCheck(t) ==
    /\ pc[t] = "sleep_check"
    /\ IF tasks # << >>
       THEN /\ pc' = [pc EXCEPT ![t] = "sleep_min"]
            /\ iter_size' = [iter_size EXCEPT ![t] = Len(tasks)]
       ELSE /\ pc' = [pc EXCEPT ![t] = "top"]
            /\ UNCHANGED iter_size
    /\ UNCHANGED <<tasks, current_time, tasks_to_execute, now, lifeVars, auto_disabled, devVars, extVars>>

\* "min(... for task in self.tasks.values())" without the lock, then the
\* sleep: a dict that is empty by now, or that changed size under the
\* iteration, raises out of _run and ends the thread.
RunSleepMin(t) ==
    /\ pc[t] = "sleep_min"
    /\ pc' = [pc EXCEPT ![t] = IF Len(tasks) = iter_size[t] THEN "top" ELSE "crashed"]
    /\ iter_size' = [iter_size EXCEPT ![t] = 0]
    /\ UNCHANGED <<tasks, current_time, tasks_to_execute, now, lifeVars, auto_disabled, devVars, extVars>>

\* Time passes.
Tick ==
    /\ now < MaxTime
    /\ now' = now + 1
    /\ UNCHANGED <<tasks, threadVars, lifeVars, auto_disabled, devVars, extVars>>

TMNext ==
    \/ AddTask
    \/ RemoveTask
    \/ EnableTask
    \/ DisableTask
    \/ ClearAllTasks
    \/ StartCheck
    \/ StartThread
    \/ StopBegin
    \/ StopJoined
    \/ StopJoinTimeout
    \/ \E t \in Threads : RunTop(t)
    \/ \E t \in Threads : RunScan(t)
    \/ \E t \in Threads : RunInvoke(t)
    \/ \E t \in Threads : RunCallbackReturns(t)
    \/ \E t \in Threads : RunCallbackRaises(t)
    \/ \E t \in Threads : RunSleepCheck(t)
    \/ \E t \in Threads : RunSleepMin(t)
    \/ Tick

\* A TaskMonitor under its callers and its scheduler threads; the device that
\* owns it stays as constructed.
InitTM ==
    /\ kind = "UIO"
    /\ uio = UioInit
    /\ eload = ELoadInit
    /\ ifmux = IfMuxInit
    /\ call = Call("init", 0, << >>, FALSE)
    /\ tried = << >>
    /\ sent = << >>
    /\ armed = NoSetter
    /\ fails = 0
    /\ tasks = << >>
    /\ running = FALSE
    /\ thread = NoThread
    /\ pc = [t \in Threads |-> "none"]
    /\ current_time = [t \in Threads |-> 0]
    /\ tasks_to_execute = [t \in Threads |-> << >>]
    /\ iter_size = [t \in Threads |-> 0]
    /\ now = 0
    /\ starting = 0
    /\ joining = NoThread
    /\ auto_disabled = {}
    /\ stop_joined = FALSE
    /\ ExtInit

SpecTM == InitTM /\ [][TMNext]_vars

\* --------------------------------------------------- TaskMonitor properties

\* Whether scheduler thread t exists and has not ended.
Alive(t) == pc[t] \notin {"none", "crashed"}

\* The task of the dict called name.
TaskOf(name) == tasks[IndexOf(name)]

\* C8 (as claimed): the failure that brings a task's error_count to 10 leaves
\* it disabled; a task _run has disabled, and nobody re-enabled or replaced,
\* has at least 10 errors, is disabled, and no thread enters its callback; a
\* callback that returns leaves error_count 0.  A second scheduler thread (see
\* C9) enters the callback of a task the first has just disabled.
C8_AutoDisable ==
    /\ [](\A name \in auto_disabled :
            /\ IndexOf(name) # 0
            /\ ~TaskOf(name).enabled
            /\ TaskOf(name).error_count >= ErrorLimit)
    /\ [][\A t \in Threads :
            /\ (pc[t] = "run" /\ pc'[t] = "cb" /\ Head(tasks_to_execute[t]).live)
                  => Head(tasks_to_execute[t]).name \notin auto_disabled
            /\ \A name \in TaskNames :
                  (pc[t] = "cb" /\ pc'[t] # "cb" /\ Head(tasks_to_execute[t]).live
                   /\ Head(tasks_to_execute[t]).name = name) =>
                      \/ TaskOf(name)'.error_count = 0
                      \/ /\ TaskOf(name)'.error_count = TaskOf(name).error_count + 1
                         /\ (TaskOf(name)'.error_count >= ErrorLimit
                               => (~TaskOf(name)'.enabled /\ name \in auto_disabled'))
                         /\ (TaskOf(name)'.error_count < ErrorLimit
                               => TaskOf(name)'.enabled = TaskOf(name).enabled)
         ]_vars

\* C9 (as claimed): at no time are two scheduler threads inside a task
\* callback.  start() after a stop() whose join timed out, and two overlapping
\* start() calls, both leave two threads running _run.
C9_OneCallbackAtATime == Cardinality({t \in Threads : pc[t] = "cb"}) <= 1

\* C10 (as claimed): while running is true a scheduler thread is alive,
\* whatever add_task, remove_task, enable_task, disable_task and
\* clear_all_tasks calls are made meanwhile.  A dict that changes size under
\* the unlocked min() of _run ends the thread with running still true.
C10_SchedulerSurvivesTaskCalls == running => \E t \in Threads : Alive(t)

\* C11 (as claimed): a callback that is executing ends only by returning or
\* raising, after which its thread goes on with its pass; and from the moment
\* stop() has returned with its join satisfied until start() is called, no
\* scheduler thread is inside a callback.  The thread that a timed-out stop()
\* or an overlapping start() left behind (see C9) is not the one joined.
C11_StopIsCooperative ==
    /\ [](stop_joined => \A t \in Threads : pc[t] # "cb")
    /\ [][\A t \in Threads :
            (pc[t] = "cb" /\ pc'[t] # "cb") => pc'[t] \in {"run", "sleep_check"}]_vars

\* ------------------------------------------------ periodic snapshot contents

\* How often pgn occurs among the sends the last call attempted.
TimesTried(pgn) == Cardinality({i \in 1 .. Len(tried) : tried[i] = pgn})

\* What a frame of the given PGN carries when rendered from the shadow of the
\* device under observation.
Render(pgn) ==
    CASE kind = "UIO" -> UioRender(uio, pgn)
      [] kind = "ELoad" /\ pgn = "OP_MODE_REQ" -> ELoadOpModeData(eload)
      [] kind = "ELoad" /\ pgn = "VOLTAGE_ELM_OUT_VAL_REQ" -> eload.v
      [] kind = "ELoad" /\ pgn = "CUR_ELM_OUT_VAL_REQ" -> eload.c
      [] kind = "ELoad" /\ pgn = "SWITCH_ELM_DOUT_REQ" ->
            [r \in Relays |-> IF eload.relay[r] THEN 1 ELSE 0]
      [] kind = "IfMux" /\ pgn = "CAN_INFO_REQ" -> CanInfoData(ifmux)
      [] kind = "IfMux" /\ pgn = "CAN_MUX_REQ" -> ifmux.mux_int

\* C12 (as claimed): every snapshot tick attempts exactly one op-mode request,
\* one request per value vector and the switch / routing request of the device
\* (UIO: 5 messages; ELoad: op-mode, voltage, current and SWITCH_ELM_DOUT;
\* IfMux: CAN_INFO and CAN_MUX), and every frame that gets through carries the
\* current shadow.  The ELoad tick has no relay request and the IfMux tick no
\* CAN_MUX request.
C12_TickEmitsFullSnapshot ==
    call.op = "tick" =>
      /\ \A pgn \in (CASE kind = "UIO" ->
                            {"OP_MODE_REQ", "VOLTAGE_OUT_VAL_REQ", "CUR_LOOP_OUT_VAL_REQ",
                             "PWM_OUT_VAL_REQ", "SWITCH_OUTPUT_REQ"}
                       [] kind = "ELoad" ->
                            {"OP_MODE_REQ", "VOLTAGE_ELM_OUT_VAL_REQ", "CUR_ELM_OUT_VAL_REQ",
                             "SWITCH_ELM_DOUT_REQ"}
                       [] kind = "IfMux" -> {"CAN_INFO_REQ", "CAN_MUX_REQ"}) :
            TimesTried(pgn) = 1
      /\ \A i \in 1 .. Len(sent) : sent[i] = Frame(sent[i].pgn, Render(sent[i].pgn))

\* ------------------------------------------------ cadence of the periodic tasks

\* The time modelled: 30 s, in units of 100 ms.
Horizon == 300

\* Periods handed to add_task_sec by _setup_periodic_tasks, in units of 100 ms.
UioModuleInfoPeriod == 40
UioAllParametersPeriod == 1
ELoadModuleInfoPeriod == 90
ELoadAllParametersPeriod == 1
IfMuxModuleInfoPeriod == 50
IfMuxCanStatesPeriod == 20

\* Period of the task "module_info" of the device under observation.
ModuleInfoPeriod ==
    CASE kind = "UIO" -> UioModuleInfoPeriod
      [] kind = "ELoad" -> ELoadModuleInfoPeriod
      [] kind = "IfMux" -> IfMuxModuleInfoPeriod

\* Period of its second task ("all_parameters", for IfMux "can_states").
SnapshotPeriod ==
    CASE kind = "UIO" -> UioAllParametersPeriod
      [] kind = "ELoad" -> ELoadAllParametersPeriod
      [] kind = "IfMux" -> IfMuxCanStatesPeriod

\* _run: (current_time - task.last_run) >= period_sec.
ModuleInfoDue == clock - hb_last >= ModuleInfoPeriod
SnapshotDue == clock - snap_last >= SnapshotPeriod

\* One pass of _run in which "module_info" is due: request_module_info().
CadHeartbeat ==
    /\ ModuleInfoDue
    /\ hb_last' = clock
    /\ hb_gap' = clock - hb_last
    /\ hb_count' = hb_count + 1
    /\ UNCHANGED <<clock, snap_last, snap_gap, snap_count, notCad>>

\* The same pass reaches the second task (tasks is in insertion order):
\* _send_all_parameters() / _request_can_states().
CadSnapshot ==
    /\ ~ModuleInfoDue
    /\ SnapshotDue
    /\ snap_last' = clock
    /\ snap_gap' = IF snap_count = 0 THEN 0 ELSE clock - snap_last
    /\ snap_count' = snap_count + 1
    /\ UNCHANGED <<clock, hb_last, hb_gap, hb_count, notCad>>

\* Nothing is due: _run sleeps (at most 1 ms at a time) and time passes.
CadSleep ==
    /\ ~ModuleInfoDue
    /\ ~SnapshotDue
    /\ clock < Horizon
    /\ clock' = clock + 1
    /\ UNCHANGED <<hb_last, snap_last, hb_gap, snap_gap, hb_count, snap_count,
                   notCad>>

CadNext == CadHeartbeat \/ CadSnapshot \/ CadSleep

InitCad == DevInit /\ TMInit /\ ExtInit

SpecCad == InitCad /\ [][CadNext]_vars

\* C13 (as claimed): with no user calls, a running UIO, ELoad or IfMux emits
\* MODULE_INFO_REQ every 9 s and its parameter snapshot every 3 s, so after
\* 30 s there were about three heartbeats and ten snapshots.  The configured
\* periods are 4 s / 0.1 s (UIO), 9 s / 0.1 s (ELoad) and 5 s / 2 s (IfMux).
C13_HeartbeatAndSnapshotCadence ==
    /\ hb_gap # 0 => hb_gap = 90
    /\ snap_gap # 0 => snap_gap = 30
    /\ clock = Horizon => (hb_count \in 3 .. 4 /\ snap_count \in 9 .. 10)

\* ------------------------------------------------ sequence numbers on the wire

\* The sequence number is one byte.
SeqModulus == 256

\* Calls of send_can_message followed.
MaxFrames == 4

\* Frames the builder has built before the calls followed begin: none, or
\* enough for the counter to wrap within the calls followed.
SentBefore == {0, 254}

\* build_can_packet, first part: avtp.sequence_number = self.sequence_number.
SeqStamp(t) ==
    /\ seq_pc[t] = "idle"
    /\ seq_started < MaxFrames
    /\ seq_started' = seq_started + 1
    /\ seq_frame' = [seq_frame EXCEPT ![t] = sequence_number]
    /\ seq_pc' = [seq_pc EXCEPT ![t] = "stamped"]
    /\ UNCHANGED <<sequence_number, seq_tmp, wire_last, wire_any, notSeq>>

\* build_can_packet, last statement, read of self.sequence_number.
SeqLoad(t) ==
    /\ seq_pc[t] = "stamped"
    /\ seq_tmp' = [seq_tmp EXCEPT ![t] = sequence_number]
    /\ seq_pc' = [seq_pc EXCEPT ![t] = "loaded"]
    /\ UNCHANGED <<sequence_number, seq_frame, seq_started, wire_last, wire_any, notSeq>>

\* build_can_packet, last statement, store of (value + 1) % 256.
SeqStore(t) ==
    /\ seq_pc[t] = "loaded"
    /\ sequence_number' = (seq_tmp[t] + 1) % SeqModulus
    /\ seq_pc' = [seq_pc EXCEPT ![t] = "built"]
    /\ UNCHANGED <<seq_frame, seq_tmp, seq_started, wire_last, wire_any, notSeq>>

\* AVTPManager.send_can_message: sendp(pkt).
SeqSendp(t) ==
    /\ seq_pc[t] = "built"
    /\ wire_last' = seq_frame[t]
    /\ wire_any' = TRUE
    /\ seq_pc' = [seq_pc EXCEPT ![t] = "idle"]
    /\ UNCHANGED <<sequence_number, seq_frame, seq_tmp, seq_started, notSeq>>

SeqNext == \E t \in Senders : SeqStamp(t) \/ SeqLoad(t) \/ SeqStore(t) \/ SeqSendp(t)

InitSeq ==
    /\ DevInit /\ TMInit /\ CadInit /\ RxInit /\ SdkInit /\ DiscInit /\ CodecInit /\ RaceInit /\ SchedInit /\ CbInit
    /\ sequence_number \in {n % SeqModulus : n \in SentBefore}
    /\ seq_pc = [t \in Senders |-> "idle"]
    /\ seq_frame = [t \in Senders |-> 0]
    /\ seq_tmp = [t \in Senders |-> 0]
    /\ seq_started = 0
    /\ wire_last = 0
    /\ wire_any = FALSE

SpecSeq == InitSeq /\ [][SeqNext]_vars

\* C14 (as claimed): every frame handed to the wire carries the sequence
\* number of the frame before it plus one, modulo 256, also when the caller
\* thread and the scheduler thread send at the same time.  build_can_packet
\* reads and increments the counter without a lock.
C14_SequenceAdvancesByOne ==
    [][\A t \in Senders :
         (wire_any /\ seq_pc[t] = "built" /\ seq_pc'[t] = "idle")
            => wire_last' = (wire_last + 1) % SeqModulus]_vars

\* ------------------------------------------------ receiving frames

\* Frames followed, and iterations followed of a loop that does not advance.
MaxRxFrames == 2
MaxIters == 3

Receivers == {"device", "discovery"}

\* _parse_avtp_frame without the comparison of the source MAC.
HeaderVerdict_AnySource(who, f) ==
    IF f.len < HeaderLen THEN "short"
    ELSE IF f.data_length > f.len - HeaderLen THEN "length"
    ELSE IF f.subtype # NTSCF_SUBTYPE \/ f.ethertype # ETH_P_TSN THEN "not_ntscf"
    ELSE "loop"

\* _parse_avtp_frame up to its loop: the checks in the order the code makes
\* them (the discovery callback has no MAC filter).
HeaderVerdict(who, f) ==
    IF f.len < HeaderLen THEN "short"
    ELSE IF who = "device" /\ ~f.mac_ok THEN "foreign"
    ELSE IF f.data_length > f.len - HeaderLen THEN "length"
    ELSE IF f.subtype # NTSCF_SUBTYPE \/ f.ethertype # ETH_P_TSN THEN "not_ntscf"
    ELSE "loop"

\* while offset < (data_length + 26) and offset + 2 <= len(frame)
LoopCond(f, off) == off < f.data_length + HeaderLen /\ off + 2 <= f.len

\* struct.unpack_from('!H', frame, offset)[0]
AcfHeader(f, off) ==
    LET h == f.acf[(off - HeaderLen) \div 4 + 1] IN h[1] * 256 + h[2]

\* (acf_header & 0xFF) * 4
MessageLengthBytes(f, off) == (AcfHeader(f, off) % 256) * 4

\* _on_avtp_frame / _on_discovery_frame up to the loop over ACF blocks.
RxReceive(who, f) ==
    /\ rx_pc = "idle"
    /\ rx_count < MaxRxFrames
    /\ rx_count' = rx_count + 1
    /\ rx_who' = who
    /\ rx_frame' = f
    /\ rx_verdict' = HeaderVerdict(who, f)
    /\ rx_pc' = IF HeaderVerdict(who, f) = "loop" THEN "loop" ELSE "idle"
    /\ rx_offset' = HeaderLen
    /\ rx_iters' = 0
    /\ rx_blocks' = << >>
    /\ rx_health' = IF who = "device"
                    THEN [rx_health EXCEPT !.message_count = @ + 1]
                    ELSE rx_health
    /\ UNCHANGED <<rx_handled, notRx>>

\* One evaluation of the loop condition and, if it holds, one pass through the
\* body.  A block of 8 bytes or more reaches the handlers, which may raise;
\* _on_avtp_frame then counts an error and gives the frame up.
RxIterate(raises) ==
    /\ rx_pc = "loop"
    /\ rx_iters < MaxIters
    /\ LET f == rx_frame
           n == MessageLengthBytes(f, rx_offset)
       IN  IF ~LoopCond(f, rx_offset) \/ rx_offset + n > f.len
           THEN /\ ~raises
                /\ rx_pc' = "idle"
                /\ rx_verdict' = "parsed"
                /\ UNCHANGED <<rx_offset, rx_iters, rx_blocks, rx_handled, rx_health>>
           ELSE /\ rx_blocks' = Append(rx_blocks, n)
                /\ rx_handled' = IF n >= 8 THEN rx_handled + 1 ELSE rx_handled
                /\ rx_iters' = rx_iters + 1
                /\ IF raises
                   THEN /\ n >= 8
                        /\ rx_pc' = "idle"
                        /\ rx_verdict' = "error"
                        /\ rx_health' = IF rx_who = "device"
                                        THEN [rx_health EXCEPT !.error_count = @ + 1]
                                        ELSE rx_health
                        /\ UNCHANGED rx_offset
                   ELSE /\ rx_offset' = rx_offset + n
                        /\ UNCHANGED <<rx_pc, rx_verdict, rx_health>>
    /\ UNCHANGED <<rx_who, rx_frame, rx_count, notRx>>

RxNext ==
    \/ \E who \in Receivers, f \in RxFrames : RxReceive(who, f)
    \/ \E raises \in BOOLEAN : RxIterate(raises)

InitRx == kind = "UIO" /\ DevFresh /\ TMInit /\ ExtInit

SpecRx == InitRx /\ [][RxNext]_vars

\* C15 (as claimed): whatever the bytes of the frame, every pass through the
\* loop over ACF blocks, in the device receiver and in discovery, either
\* leaves the loop or moves the offset on by at least one quadlet.  A header
\* whose low byte is 0 gives a block of 0 bytes and the offset stays.
C15_AcfLoopAdvancesOrStops ==
    [][(rx_pc = "loop" /\ rx_pc' = "loop") => rx_offset' >= rx_offset + 4]_vars

\* C16 (as claimed): a frame of the device with ethertype 0x22F0 and subtype
\* 0x82 whose data_length exceeds the bytes after the headers is dropped: no
\* block handed on, nothing handled, no error counted, the receiver ready for
\* the next frame, and the counter rx_drops_length one higher.  DeviceHealth
\* has no such counter and nothing else counts the drop.
C16_LengthDropCounted ==
    [][(/\ rx_pc = "idle" /\ rx_count' = rx_count + 1
        /\ rx_who' = "device" /\ rx_frame'.mac_ok
        /\ rx_frame'.len >= HeaderLen
        /\ rx_frame'.ethertype = ETH_P_TSN /\ rx_frame'.subtype = NTSCF_SUBTYPE
        /\ rx_frame'.data_length > rx_frame'.len - HeaderLen)
       => /\ rx_pc' = "idle"
          /\ rx_blocks' = << >>
          /\ rx_handled' = rx_handled
          /\ rx_health'.error_count = rx_health.error_count
          /\ "rx_drops_length" \in DOMAIN rx_health'
          /\ rx_health'.rx_drops_length = rx_health.rx_drops_length + 1]_vars

\* ------------------------------------------------ the facade

\* Device objects followed.
MaxObjects == 3

\* MAC addresses as strings of characters (shortened to two characters): the
\* same address in lower and in upper case, and another one.
MacArgs == {<<"a", "1">>, <<"A", "1">>, <<"b", "2">>}

\* str.upper(), character by character.
UpperChar(c) == CASE c = "a" -> "A" [] c = "b" -> "B" [] OTHER -> c
Upper(mac) == [i \in DOMAIN mac |-> UpperChar(mac[i])]

\* mac in self._connected_devices, and self._connected_devices[mac].
Connected(devs, m) == \E i \in 1 .. Len(devs) : devs[i].mac = m
DeviceId(devs, m) == devs[CHOOSE i \in 1 .. Len(devs) : devs[i].mac = m].id

SdkResult(devs, objs, ret, raised) ==
    [devs |-> devs, objs |-> objs, ret |-> ret, raised |-> raised]

\* A connect that makes a new object whether or not the MAC is connected.
Connect_AlwaysNew(devs, objs, k, mac, auto_start) ==
    LET m == Upper(mac)
        id == Len(objs) + 1
    IN  SdkResult(Append(devs, [mac |-> m, id |-> id]),
                  Append(objs, [mac |-> m, kind |-> k, running |-> auto_start]),
                  id, FALSE)

\* connect_uio / connect_eload / connect_ifmux: the three differ in the class
\* of the object they construct only.
Connect(devs, objs, k, mac, auto_start) ==
    LET m == Upper(mac)
        id == Len(objs) + 1
    IN  IF Connected(devs, m)
        THEN SdkResult(devs, objs, DeviceId(devs, m), FALSE)
        ELSE SdkResult(Append(devs, [mac |-> m, id |-> id]),
                       Append(objs, [mac |-> m, kind |-> k, running |-> auto_start]),
                       id, FALSE)

\* DeviceSDR.stop(): nothing when not running; otherwise the task monitor and
\* the receiver are stopped first, and _running is cleared only if neither
\* raised.
SdkStop(objs, id, stop_raises) ==
    IF ~objs[id].running THEN [objs |-> objs, raised |-> FALSE]
    ELSE IF stop_raises THEN [objs |-> objs, raised |-> TRUE]
    ELSE [objs |-> [objs EXCEPT ![id].running = FALSE], raised |-> FALSE]

\* disconnect(mac); bad is the object whose stop() raises (None: no object).
Disconnect(devs, objs, mac, bad) ==
    LET m == Upper(mac) IN
    IF ~Connected(devs, m) THEN SdkResult(devs, objs, None, FALSE)
    ELSE LET r == SdkStop(objs, DeviceId(devs, m), DeviceId(devs, m) = bad) IN
         IF r.raised THEN SdkResult(devs, r.objs, None, TRUE)
         ELSE SdkResult(SelectSeq(devs, LAMBDA e : e.mac # m), r.objs, None, FALSE)

\* disconnect_all(): for mac in list(self._connected_devices.keys()).
RECURSIVE DisconnectEach(_, _, _, _)
DisconnectEach(keys, devs, objs, bad) ==
    IF keys = << >> THEN SdkResult(devs, objs, None, FALSE)
    ELSE LET r == Disconnect(devs, objs, Head(keys), bad) IN
         IF r.raised THEN r ELSE DisconnectEach(Tail(keys), r.devs, r.objs, bad)

DisconnectAll(devs, objs, bad) ==
    DisconnectEach([i \in 1 .. Len(devs) |-> devs[i].mac], devs, objs, bad)

SdkFinish(op, mac, r) ==
    /\ sdk_devices' = r.devs
    /\ sdk_objects' = r.objs
    /\ sdk_call' = SdkCall(op, mac, r.ret, r.raised)
    /\ UNCHANGED notSdk

SdkConnect(k, mac, auto_start) ==
    /\ Connected(sdk_devices, Upper(mac)) \/ Len(sdk_objects) < MaxObjects
    /\ SdkFinish("connect", mac, Connect(sdk_devices, sdk_objects, k, mac, auto_start))

SdkDisconnect(mac, bad) ==
    /\ bad \in 0 .. Len(sdk_objects)
    /\ SdkFinish("disconnect", mac, Disconnect(sdk_devices, sdk_objects, mac, bad))

SdkDisconnectAll(bad) ==
    /\ bad \in 0 .. Len(sdk_objects)
    /\ SdkFinish("disconnect_all", << >>, DisconnectAll(sdk_devices, sdk_objects, bad))

\* with SDRIG(...) as sdk: ... ; __exit__ runs on a normal and on an
\* exceptional exit alike and returns False.
SdkExit(bad) ==
    /\ bad \in 0 .. Len(sdk_objects)
    /\ SdkFinish("exit", << >>, DisconnectAll(sdk_devices, sdk_objects, bad))

SdkNext ==
    \/ \E k \in DeviceKinds, mac \in MacArgs, auto_start \in BOOLEAN :
          SdkConnect(k, mac, auto_start)
    \/ \E mac \in MacArgs, bad \in 0 .. MaxObjects : SdkDisconnect(mac, bad)
    \/ \E bad \in 0 .. MaxObjects : SdkDisconnectAll(bad)
    \/ \E bad \in 0 .. MaxObjects : SdkExit(bad)

InitSdk == kind = "UIO" /\ DevFresh /\ TMInit /\ ExtInit

SpecSdk == InitSdk /\ [][SdkNext]_vars

\* C17 (as claimed): after disconnect_all() or after the context block is
\* left, on every path, also when stopping a device fails, no device is
\* connected and every device object is stopped.  An exception of stop()
\* leaves disconnect() before the entry is deleted and ends the loop of
\* disconnect_all().
C17_DisconnectAllLeavesNothing ==
    sdk_call.op \in {"disconnect_all", "exit"}
       => /\ sdk_devices = << >>
          /\ \A id \in 1 .. Len(sdk_objects) : ~sdk_objects[id].running

\* C18: a connect for a MAC that is still connected, in any letter case and
\* with any of the three connect methods, returns the object that is
\* connected under that MAC and creates nothing; the map never holds two
\* entries for one MAC, and what a connect returned is the entry of its MAC.
C18_ConnectTwiceSameObject ==
    /\ \A i, j \in 1 .. Len(sdk_devices) :
          sdk_devices[i].mac = sdk_devices[j].mac => i = j
    /\ (sdk_call.op = "connect" /\ ~sdk_call.raised)
          => /\ Connected(sdk_devices, Upper(sdk_call.mac))
             /\ DeviceId(sdk_devices, Upper(sdk_call.mac)) = sdk_call.ret
    /\ \A k \in DeviceKinds, mac \in MacArgs, auto_start \in BOOLEAN :
          Connected(sdk_devices, Upper(mac))
             => LET r == Connect(sdk_devices, sdk_objects, k, mac, auto_start)
                IN  /\ r.ret = DeviceId(sdk_devices, Upper(mac))
                    /\ ~r.raised
                    /\ r.devs = sdk_devices
                    /\ r.objs = sdk_objects

\* The address connected in upper case and connected again in lower case
\* after another device was connected: the call returned the first object.
C18_Witness ==
    /\ sdk_call.op = "connect"
    /\ sdk_call.mac = <<"a", "1">>
    /\ sdk_call.ret = 1
    /\ Len(sdk_objects) = 2
    /\ Len(sdk_devices) = 2
    /\ sdk_devices[1] = [mac |-> <<"A", "1">>, id |-> 1]

\* ------------------------------------------------ discovery

\* Calls of discover_devices and received frames followed.
MaxCalls == 2
MaxAnswers == 3

\* for _ in range(3)
DiscoveryRequests == 3

\* Timeouts, in sleeps of 0.1 s, and what a received frame can be: its source
\* MAC, the PGN of its ACF block and whether can_db.decode_message gave a
\* result.
TimeoutArgs == {0, 2}
DiscMacs == {"m1", "m2"}
DiscPgns == {"MODULE_INFO", "MODULE_INFO_EX", "OP_MODE_ANS"}

\* A begin that keeps the entries of earlier calls.
DiscBegin_NoClear(timeout) ==
    /\ disc_pc = "idle"
    /\ disc_calls < MaxCalls
    /\ disc_calls' = disc_calls + 1
    /\ disc_receiving' = TRUE
    /\ disc_frames' = 0
    /\ disc_timeout' = timeout
    /\ disc_waited' = 0
    /\ disc_info' = {}
    /\ disc_ex' = {}
    /\ disc_call' = [done |-> FALSE, raised |-> FALSE, ret |-> NoDevices]
    /\ disc_pc' = "send"
    /\ UNCHANGED <<disc_devices, disc_answers, notDisc>>

\* discover_devices up to its first transmission: self.devices.clear(),
\* start_receiving(self._on_discovery_frame, filter_stream_id=False).
DiscBegin(timeout) ==
    /\ disc_pc = "idle"
    /\ disc_calls < MaxCalls
    /\ disc_calls' = disc_calls + 1
    /\ disc_devices' = NoDevices
    /\ disc_receiving' = TRUE
    /\ disc_frames' = 0
    /\ disc_timeout' = timeout
    /\ disc_waited' = 0
    /\ disc_info' = {}
    /\ disc_ex' = {}
    /\ disc_call' = [done |-> FALSE, raised |-> FALSE, ret |-> NoDevices]
    /\ disc_pc' = "send"
    /\ UNCHANGED <<disc_answers, notDisc>>

\* One pass of the sending loop: send_can_message(...) to FF:FF:FF:FF:FF:FF and
\* a sleep.  An exception of the transport leaves discover_devices at once,
\* with the receiver still running.
DiscSend(ok) ==
    /\ disc_pc = "send"
    /\ IF ok
       THEN /\ disc_frames' = disc_frames + 1
            /\ disc_pc' = IF disc_frames + 1 = DiscoveryRequests THEN "wait" ELSE "send"
            /\ UNCHANGED disc_call
       ELSE /\ disc_pc' = "idle"
            /\ disc_call' = [done |-> TRUE, raised |-> TRUE, ret |-> NoDevices]
            /\ UNCHANGED disc_frames
    /\ UNCHANGED <<disc_devices, disc_receiving, disc_timeout, disc_waited, disc_info,
                   disc_ex, disc_answers, disc_calls, notDisc>>

\* _parse_acf_can_message for one ACF block, on the receiver thread.
DiscAnswer(mac, pgn, decoded) ==
    /\ disc_receiving
    /\ disc_answers < MaxAnswers
    /\ disc_answers' = disc_answers + 1
    /\ LET old == IF mac \in DOMAIN disc_devices THEN disc_devices[mac]
                  ELSE [info |-> FALSE, ex |-> FALSE]
           put(e) == [m \in DOMAIN disc_devices \cup {mac} |->
                         IF m = mac THEN e ELSE disc_devices[m]]
       IN  disc_devices' =
             IF ~decoded THEN disc_devices
             ELSE IF pgn = "MODULE_INFO" THEN put([old EXCEPT !.info = TRUE])
             ELSE IF pgn = "MODULE_INFO_EX" THEN put([old EXCEPT !.ex = TRUE])
             ELSE disc_devices
    /\ disc_info' = IF decoded /\ pgn = "MODULE_INFO" /\ disc_pc # "idle"
                    THEN disc_info \cup {mac} ELSE disc_info
    /\ disc_ex' = IF decoded /\ pgn = "MODULE_INFO_EX" /\ disc_pc # "idle"
                  THEN disc_ex \cup {mac} ELSE disc_ex
    /\ UNCHANGED <<disc_pc, disc_receiving, disc_frames, disc_timeout, disc_waited,
                   disc_calls, disc_call, notDisc>>

\* while (time.time() - start_time) < timeout: time.sleep(0.1)
DiscWait ==
    /\ disc_pc = "wait"
    /\ disc_waited < disc_timeout
    /\ disc_waited' = disc_waited + 1
    /\ UNCHANGED <<disc_pc, disc_devices, disc_receiving, disc_frames, disc_timeout,
                   disc_info, disc_ex, disc_answers, disc_calls, disc_call, notDisc>>

\* stop_receiving() and return self.devices.copy().
DiscReturn ==
    /\ disc_pc = "wait"
    /\ disc_waited >= disc_timeout
    /\ disc_receiving' = FALSE
    /\ disc_call' = [done |-> TRUE, raised |-> FALSE, ret |-> disc_devices]
    /\ disc_pc' = "idle"
    /\ UNCHANGED <<disc_devices, disc_frames, disc_timeout, disc_waited, disc_info,
                   disc_ex, disc_answers, disc_calls, notDisc>>

DiscNext ==
    \/ \E timeout \in TimeoutArgs : DiscBegin(timeout)
    \/ \E ok \in BOOLEAN : DiscSend(ok)
    \/ \E mac \in DiscMacs, pgn \in DiscPgns, decoded \in BOOLEAN :
          DiscAnswer(mac, pgn, decoded)
    \/ DiscWait
    \/ DiscReturn

InitDisc == kind = "UIO" /\ DevFresh /\ TMInit /\ ExtInit

SpecDisc == InitDisc /\ [][DiscNext]_vars

\* A call of discover_devices has returned normally and none is under way.
DiscReturned == disc_pc = "idle" /\ disc_call.done /\ ~disc_call.raised

C20_PwmVoltageIsFive ==
    kind = "UIO" =>
      /\ \A pin \in DOMAIN uio.p : uio.p[pin][3] = 5 /\ uio.pl[pin][3] = 5
      /\ (call.op = "set_pwm" /\ ~call.raised)
            => uio.p[call.idx] = <<call.args[1], call.args[2], 5>>
      /\ \A i \in 1 .. Len(sent) :
            sent[i].pgn = "PWM_OUT_VAL_REQ"
               => \A pin \in DOMAIN sent[i].data : sent[i].data[pin][3] = 5

\* set_pwm(1000, 50, 12) returned and its request went out.
C20_Witness ==
    /\ kind = "UIO"
    /\ call.op = "set_pwm" /\ ~call.raised
    /\ call.args = <<1000, 50, 12>>
    /\ uio.p[call.idx] = <<1000, 50, 5>>
    /\ \E i \in 1 .. Len(sent) : sent[i].pgn = "PWM_OUT_VAL_REQ"

\* ------------------------------------------------ PWM frequency range

\* C21 (as claimed): set_pwm raises, and leaves the shadow of the device as
\* it was, for every frequency below 20 Hz and every frequency above 5000 Hz.
\* Pin.set_pwm checks 0 <= frequency <= 5000; only PWMConfig, which set_pwm
\* does not use, has the lower limit 20.
C21_PwmFrequencyRange ==
    /\ []((kind = "UIO" /\ call.op = "set_pwm"
              /\ (call.args[1] < 20 \/ call.args[1] > 5000)) => call.raised)
    /\ [][(kind = "UIO" /\ call'.op = "set_pwm"
              /\ (call'.args[1] < 20 \/ call'.args[1] > 5000)) => uio' = uio]_vars

\* ------------------------------------------------ what set_voltage leaves to render

\* C22 (as claimed): after pin(0).set_voltage(12) on a fresh UIO the shadow
\* renders an OP_MODE_REQ with vlt_o_1_op_mode = 3 and every other op-mode
\* signal 2, a SWITCH_OUTPUT_REQ with sel_vlt_o_1 = 1 and every other switch 0,
\* and a VOLTAGE_OUT_VAL_REQ with 12 for pin 1 and 0 for the others.
\* set_voltage sets GET_VOLTAGE to Operate too, so vlt_i_1_op_mode is 3.
C22_MessagesAfterSetVoltage ==
    [][(/\ kind = "UIO" /\ uio = UioInit
        /\ call'.op = "set_voltage" /\ call'.idx = 0 /\ call'.args = <<12>>)
       => /\ ~call'.raised
          /\ UioOpModeData(uio') =
                [x \in {OpModePrefix[f] : f \in Features} \X Pins |->
                    IF x = <<"vlt_o", 0>> THEN 3 ELSE 2]
          /\ UioSwitchData(uio') =
                [x \in SwitchKeys \X Pins |-> IF x = <<"vlt_o", 0>> THEN 1 ELSE 0]
          /\ uio'.v = [i \in Pins |-> IF i = 0 THEN 12 ELSE 0]]_vars

\* ------------------------------------------------- frame and identifier codecs

\* Longest CAN payload handed to a builder; the builders keep data[:64].
MaxPayload == 66

\* CAN-FD payload limit of both builders.
MaxData == 64

\* Bytes of an ACF-CAN brief block before the data: header(2) flags(1) bus(1) id(4).
AcfHeaderBytes == 8

ACF_MSG_TYPE_CAN_BRIEF == 2

\* Payloads of every length: all zero, ending in a non-zero byte, ending in zero.
Payload(n, k) == [i \in 1 .. n |-> (i * k) % 256]

PayloadArgs == {Payload(n, k) : n \in 0 .. MaxPayload, k \in {0, 37, 128}}

BusArgs == {0, 5, 31}

CanIdArgs == {0, 1, 18996736, 536870911}

Zeros(n) == [i \in 1 .. n |-> 0]

\* data[:k]
Take(data, k) == SubSeq(data, 1, IF Len(data) < k THEN Len(data) ELSE k)

\* AVTPPacket.set_flags with the flags build_can_packet passes.
SetFlags(extended_id, can_fd) ==
    (IF extended_id THEN 8 ELSE 0) + (IF can_fd THEN 2 ELSE 0)

\* AVTPPacket.set_acf_header: (msg_type << 9) | (length_quadlets & 0x1FF).
SetAcfHeader(msg_type, length_quadlets) == (msg_type * 512) + (length_quadlets % 512)

\* AVTPPacket.get_acf_length_quadlets
GetAcfLengthQuadlets(acf_header) == acf_header % 512

\* AVTPBuilder.build_can_packet: the AVTP layer of the packet and the
\* builder's sequence number after the call.  data_length is a one-byte field.
BuildCanPacket(seq, can_bus_id, msg_id, data, extended_id, can_fd) ==
    LET d == Take(data, MaxData)
        payload_len == Len(d)
        acf_payload_length == AcfHeaderBytes + payload_len
        quadlets == (acf_payload_length + 3) \div 4
    IN  [pkt |-> [subtype |-> NTSCF_SUBTYPE,
                  version_cd |-> 128,
                  data_length |-> acf_payload_length % 256,
                  sequence_number |-> seq,
                  acf_header |-> SetAcfHeader(ACF_MSG_TYPE_CAN_BRIEF, quadlets),
                  flags |-> SetFlags(extended_id, can_fd),
                  can_id |-> can_bus_id % 32,
                  msg_id |-> msg_id,
                  data |-> d \o Zeros(MaxData - payload_len)],
         sequence_number |-> (seq + 1) % SeqModulus]

\* The inputs of one call of build_can_packet.
BuildCanPacketInputs ==
    [op : {"build_can_packet"}, bus_id : BusArgs, can_id : CanIdArgs, data : PayloadArgs]

\* AVTPBuilder.build_can_packet(dst, src, bus_id, can_id, data)
CodecBuildCanPacket ==
    /\ ~cdc_done
    /\ cdc_in.op = "build_can_packet"
    /\ LET r == BuildCanPacket(sequence_number, cdc_in.bus_id, cdc_in.can_id,
                               cdc_in.data, TRUE, TRUE)
       IN  /\ cdc_out' = [op |-> "build_can_packet", pkt |-> r.pkt]
           /\ sequence_number' = r.sequence_number
    /\ cdc_done' = TRUE
    /\ UNCHANGED <<cdc_in, seq_pc, seq_frame, seq_tmp, seq_started, wire_last, wire_any>>
    /\ UNCHANGED notCodecSeq

\* AvtpAcfClient.build_acf_can_brief: the bytes of one ACF-CAN brief block.
BuildAcfCanBrief(bus_id, msg_id, data, eff, fdf, brs, ts_valid) ==
    LET msg_type == 2
        flags == (IF ts_valid THEN 32 ELSE 0) + (IF eff THEN 8 ELSE 0)
                     + (IF brs THEN 4 ELSE 0) + (IF fdf THEN 2 ELSE 0)
        d == Take(data, MaxData)
        header_bytes == 2 + 1 + 1 + 4
        quadlets == (header_bytes + Len(d) + 3) \div 4
        header == ((msg_type % 128) * 512) + (quadlets % 512)
        b == <<header \div 256, header % 256, flags, bus_id % 32,
               (msg_id \div 16777216) % 256, (msg_id \div 65536) % 256,
               (msg_id \div 256) % 256, msg_id % 256>> \o d
    IN  b \o Zeros((4 - (Len(b) % 4)) % 4)

\* parse_can_brief: (bus_id, can_id, flags, data, msg_type) of a block; the data
\* are everything after the eighth byte.
ParseCanBrief(block) ==
    IF Len(block) < AcfHeaderBytes
    THEN [raised |-> TRUE]
    ELSE LET header == (block[1] * 256) + block[2]
         IN  [raised |-> FALSE,
              bus_id |-> block[4] % 32,
              can_id |-> ((block[5] % 32) * 16777216) + (block[6] * 65536)
                             + (block[7] * 256) + block[8],
              flags |-> block[3],
              data |-> SubSeq(block, AcfHeaderBytes + 1, Len(block)),
              msg_type |-> (header \div 512) % 128]

\* length_quadlets of a block: the low nine bits of its first two bytes.
BlockQuadlets(block) == ((block[1] * 256) + block[2]) % 512

AcfCanBriefInputs ==
    [op : {"acf_can_brief"}, bus_id : BusArgs, can_id : CanIdArgs,
     data : {x \in PayloadArgs : Len(x) <= MaxData}]

\* parse_can_brief(build_acf_can_brief(bus_id, can_id, data))
CodecAcfCanBrief ==
    /\ ~cdc_done
    /\ cdc_in.op = "acf_can_brief"
    /\ LET block == BuildAcfCanBrief(cdc_in.bus_id, cdc_in.can_id, cdc_in.data,
                                     TRUE, FALSE, FALSE, FALSE)
       IN  cdc_out' = [op |-> "acf_can_brief", block |-> block,
                       parsed |-> ParseCanBrief(block)]
    /\ cdc_done' = TRUE
    /\ UNCHANGED <<cdc_in, notCodec>>

\* The values of the PGN enumeration (every one is (DP << 16) | (PF << 8) | 0xFE).
PgnCatalog ==
    {254, 510, 766, 2302, 4350, 8446, 8702, 8958,
     10494, 10750, 16638, 17150, 17406, 70398, 70654, 70910,
     71422, 71678, 73982, 74238, 74494, 74750, 75006, 75518,
     75774, 76030, 76286, 76542, 76798, 77054, 77310, 77566}

AddrArgs == {0, 1, 17, 127, 128, 239, 254, 255}

Priorities == 0 .. 7

\* is_pdu1_format: PF, bits [23:16] of the identifier, below 0xF0.
IsPdu1Format(can_id) == ((can_id \div 65536) % 256) < 240

\* extract_pgn variant that keeps the PS byte of every identifier.
ExtractPgn_KeepPS(can_id) == (can_id \div 256) % 262144

\* extract_pgn: PDU1 gives DP and PF with 0xFE as low byte, PDU2 keeps GE.
ExtractPgn(can_id) ==
    IF IsPdu1Format(can_id)
    THEN ((((can_id \div 256) \div 256) % 1024) * 256) + 254
    ELSE (can_id \div 256) % 262144

\* extract_source_address
ExtractSourceAddress(can_id) == can_id % 256

\* extract_priority
ExtractPriority(can_id) == (can_id \div 67108864) % 8

\* build_j1939_id: the fields occupy disjoint bits, so | is +.
BuildJ1939Id(pgn, source_addr, destination_addr, priority) ==
    LET pf == (pgn \div 256) % 256
    IN  IF pf < 240
        THEN ((priority % 8) * 67108864) + ((((pgn \div 256) % 1024) * 256) * 256)
                 + ((destination_addr % 256) * 256) + (source_addr % 256)
        ELSE ((priority % 8) * 67108864) + ((pgn % 262144) * 256)
                 + (source_addr % 256)

\* parse_can_id: (priority, pgn, source_address)
ParseCanId(can_id) ==
    [priority |-> ExtractPriority(can_id),
     pgn |-> ExtractPgn(can_id),
     source_addr |-> ExtractSourceAddress(can_id)]

J1939Inputs ==
    [op : {"j1939"}, pgn : PgnCatalog, sa : AddrArgs, da : AddrArgs,
     priority : Priorities]

\* parse_can_id(build_j1939_id(pgn, sa, da, priority))
CodecJ1939 ==
    /\ ~cdc_done
    /\ cdc_in.op = "j1939"
    /\ LET can_id == BuildJ1939Id(cdc_in.pgn, cdc_in.sa, cdc_in.da, cdc_in.priority)
       IN  cdc_out' = [op |-> "j1939", can_id |-> can_id, parsed |-> ParseCanId(can_id)]
    /\ cdc_done' = TRUE
    /\ UNCHANGED <<cdc_in, notCodec>>

\* system_pgns of DeviceIfMux._parse_acf_can_message: MODULE_INFO,
\* MODULE_INFO_EX, CAN_INFO_ANS, CAN_STATE_ANS, CAN_MUX_ANS and, with LIN
\* enabled, LIN_FRAME_RCVD_ANS.
IfMuxSystemPgns(lin_enabled) ==
    {510, 2302, 8446, 8958, 10750} \cup (IF lin_enabled THEN {17406} ELSE {})

\* DeviceIfMux.send_raw_can: the bus id of the frame sent for a channel.
SendRawCanBusId(channel_id) == channel_id + 1

\* DeviceIfMux._parse_acf_can_message up to the call of the parent: the calls
\* of the raw-CAN callback it makes, as <<channel_id, can_id, data>>.
IfMuxParseAcfCanMessage(message, registered, lin_enabled) ==
    IF Len(message) < 8 THEN << >>
    ELSE
      LET message_length_quadlets == ((message[1] % 2) * 256) + message[2]
          bus_id == message[4] % 32
          frame_length == (message_length_quadlets * 4) - 8
          can_id == ((message[5] % 32) * 16777216) + (message[6] * 65536)
                        + (message[7] * 256) + message[8]
          last == IF 8 + frame_length < Len(message) THEN 8 + frame_length
                  ELSE Len(message)
          data == SubSeq(message, 9, last)
          pgn == ExtractPgn(can_id)
          is_system_message == bus_id = 0 /\ pgn \in IfMuxSystemPgns(lin_enabled)
      IN  IF registered /\ ~is_system_message
          THEN << <<bus_id, can_id, data>> >>
          ELSE << >>

\* Buses a frame arrives from: the internal one and those of channels 0, 1, 7.
RxBusArgs == {0, 1, 2, 8}

\* Identifiers received: two raw ones, four of module messages.
RxCanIdArgs ==
    {291, 419366932}
    \cup {BuildJ1939Id(pgn, 1, 255, 3) : pgn \in {510, 8958, 17406, 73982}}

RxPayloadArgs == {Payload(n, 37) : n \in {0, 1, 4, 8}}

IfMuxRxInputs ==
    [op : {"ifmux_rx"}, bus_id : RxBusArgs, can_id : RxCanIdArgs,
     data : RxPayloadArgs, registered : BOOLEAN, lin_enabled : BOOLEAN]

\* One ACF-CAN block from the module reaches DeviceIfMux._parse_acf_can_message.
CodecIfMuxRx ==
    /\ ~cdc_done
    /\ cdc_in.op = "ifmux_rx"
    /\ LET message == BuildAcfCanBrief(cdc_in.bus_id, cdc_in.can_id, cdc_in.data,
                                       TRUE, FALSE, FALSE, FALSE)
       IN  cdc_out' = [op |-> "ifmux_rx",
                       delivered |-> IfMuxParseAcfCanMessage(
                                         message, cdc_in.registered, cdc_in.lin_enabled)]
    /\ cdc_done' = TRUE
    /\ UNCHANGED <<cdc_in, notCodec>>

CodecNext == CodecBuildCanPacket \/ CodecAcfCanBrief \/ CodecJ1939 \/ CodecIfMuxRx

InitCodec ==
    /\ kind = "UIO" /\ DevFresh /\ TMInit /\ CadInit /\ SeqInit /\ RxInit /\ SdkInit /\ DiscInit /\ RaceInit /\ SchedInit /\ CbInit
    /\ cdc_in \in BuildCanPacketInputs \cup AcfCanBriefInputs \cup J1939Inputs
                    \cup IfMuxRxInputs
    /\ cdc_out = NoCodec
    /\ cdc_done = FALSE

SpecCodec == InitCodec /\ [][CodecNext]_vars

\* C23 (as claimed): for every frame built with a CAN payload of n bytes,
\* 0 <= n <= 64, the data_length field equals the byte length of the ACF
\* block the frame declares, 4 * length_quadlets, where length_quadlets is
\* (8 + n) / 4 rounded up.
C23_DataLengthIsBlockLength ==
    (cdc_done /\ cdc_in.op = "build_can_packet" /\ Len(cdc_in.data) <= MaxData)
        => LET q == GetAcfLengthQuadlets(cdc_out.pkt.acf_header)
               n == Len(cdc_in.data)
           IN  /\ 4 * q >= AcfHeaderBytes + n
               /\ 4 * q < AcfHeaderBytes + n + 4
               /\ cdc_out.pkt.data_length = 4 * q

\* C24 (as claimed): for every bus_id in 0..31, 29-bit can_id and data of 0 to
\* 64 bytes, the block of build_acf_can_brief has length_quadlets * 4 equal to
\* 8 + |data| rounded up to a multiple of four, and parse_can_brief of the
\* block returns the same bus_id, can_id and data.
C24_AcfCanBriefRoundTrip ==
    (cdc_done /\ cdc_in.op = "acf_can_brief")
        => LET q == BlockQuadlets(cdc_out.block)
               n == Len(cdc_in.data)
           IN  /\ 4 * q = Len(cdc_out.block)
               /\ 4 * q >= AcfHeaderBytes + n
               /\ 4 * q < AcfHeaderBytes + n + 4
               /\ ~cdc_out.parsed.raised
               /\ cdc_out.parsed.bus_id = cdc_in.bus_id
               /\ cdc_out.parsed.can_id = cdc_in.can_id
               /\ cdc_out.parsed.data = cdc_in.data

\* C25: for every catalog PGN, every sa and da in 0..255 and every priority in
\* 0..7, decomposing the identifier built from them gives back the priority,
\* the sa and the catalog PGN with its 0xFE low byte, whatever da was.
C25_J1939RoundTrip ==
    (cdc_done /\ cdc_in.op = "j1939")
        => /\ cdc_out.parsed.priority = cdc_in.priority
           /\ cdc_out.parsed.source_addr = cdc_in.sa
           /\ cdc_out.parsed.pgn = cdc_in.pgn
           /\ cdc_out.can_id < 536870912

\* An identifier was built with a destination other than 0xFE and decomposed.
C25_Witness ==
    /\ cdc_done /\ cdc_in.op = "j1939"
    /\ cdc_in.da # 254 /\ cdc_in.sa # 0 /\ cdc_in.priority # 3
    /\ (cdc_out.can_id \div 256) % 256 = cdc_in.da
    /\ cdc_out.parsed.pgn = cdc_in.pgn

\* ------------------------------------------------ device properties, continued

\* C26 (as claimed): on a fresh UIO pin, disable_all_features() followed by
\* set_voltage(p, v) leaves the whole shadow (op-modes, switch states, value
\* vectors and last-sent mirrors) as set_voltage(p, v) alone on the fresh
\* device leaves it, for every v.
C26_AsClaimed ==
    [][(/\ kind = "UIO"
        /\ call.op = "disable_all_features"
        /\ uio = PinDisableAllFeatures(UioInit, call.idx)
        /\ call'.op = "set_voltage"
        /\ call'.idx = call.idx)
       => \E ok \in BOOLEAN :
            uio' = PinSetVoltage(UioInit, call'.idx, call'.args[1], ok).d]_vars

\* C26: on a fresh UIO pin, disable_all_features() followed by a
\* set_voltage(p, v) with v in 0..24 leaves the whole shadow (op-modes, switch
\* states, value vectors and last-sent mirrors), the frames sent and the
\* outcome as set_voltage(p, v) alone on the fresh device leaves them.  A
\* set_voltage that raises for its voltage changes nothing, so the op-modes
\* written by disable_all_features stay.
C26_DisableThenSetVoltage ==
    [][(/\ kind = "UIO"
        /\ call.op = "disable_all_features"
        /\ uio = PinDisableAllFeatures(UioInit, call.idx)
        /\ call'.op = "set_voltage"
        /\ call'.idx = call.idx
        /\ 0 <= call'.args[1] /\ call'.args[1] <= 24)
       => \E ok \in BOOLEAN :
            LET alone == PinSetVoltage(UioInit, call'.idx, call'.args[1], ok)
            IN  /\ uio' = alone.d
                /\ tried' = alone.log.tried
                /\ sent' = alone.log.sent
                /\ call'.raised = alone.raised]_vars

\* set_voltage(12) was sent on pin 0 and left what disable_all_features and
\* then set_voltage leave on a fresh device.
C26_Witness ==
    /\ kind = "UIO" /\ call.op = "set_voltage" /\ call.idx = 0 /\ ~call.raised
    /\ call.args = <<12>>
    /\ uio = PinSetVoltage(PinDisableAllFeatures(UioInit, 0), 0, 12, TRUE).d
    /\ Len(sent) = 1

\* C27 (as claimed): with a raw-CAN callback registered on an IfMux device,
\* every received frame that is not a system message is delivered to the
\* callback exactly once as (channel_id, can_id, data), channel_id being the
\* index send_raw_can and channel(i) use for the bus the frame came from;
\* system PGNs on the internal bus are not delivered.
C27_RawCanDelivery ==
    (cdc_done /\ cdc_in.op = "ifmux_rx" /\ cdc_in.registered)
        => IF cdc_in.bus_id = 0
                /\ ExtractPgn(cdc_in.can_id) \in IfMuxSystemPgns(cdc_in.lin_enabled)
           THEN cdc_out.delivered = << >>
           ELSE /\ Len(cdc_out.delivered) = 1
                /\ cdc_out.delivered[1][2] = cdc_in.can_id
                /\ cdc_in.bus_id # 0 =>
                       /\ cdc_out.delivered[1][1] \in 0 .. MaxPinIndex
                       /\ SendRawCanBusId(cdc_out.delivered[1][1]) = cdc_in.bus_id

\* The frames of the periodic snapshot of a UIO device whose sends all succeed.
UioSnapshot(d) == UioSendAllParameters(d, [i \in 1 .. 5 |-> TRUE]).log.sent

\* C29 (as claimed): with no further setter call, the periodic snapshot after
\* a setter has returned carries the op-modes, switch states and values the
\* setter left in the shadow; a SWITCH_OUTPUT_ANS received from the module in
\* between does not change what is emitted.
C29_AnswersLeaveSnapshot ==
    [][(/\ kind = "UIO"
        /\ call.op \in SetterOps /\ ~call.raised
        /\ call'.op = "handle_switch_output")
       => UioSnapshot(uio') = UioSnapshot(uio)]_vars

\* ------------------------------------------- setter against periodic snapshot

\* Calls of set_voltage and runs of the periodic task followed.
MaxSetCalls == 2
MaxTicks == 2

\* The pin the caller works on and the voltages it asks for.
RacePin == CHOOSE i \in Pins : \A j \in Pins : i <= j
RaceVoltages == {12, 24}

setVars == <<rc_set_pc, rc_set_arg, rc_set_todo, rc_set_calls, rc_before, rc_skipped>>
tickVars == <<rc_tick_pc, rc_tick_keys, rc_tick_data, rc_ticks, rc_tick_raised,
              rc_seen_op, rc_seen_sw>>

\* Pin.set_voltage: the range check passed, disable_all_features begins.
RaceSetBegin ==
    /\ rc_set_pc = "idle"
    /\ rc_set_calls < MaxSetCalls
    /\ \E voltage \in RaceVoltages : rc_set_arg' = voltage
    /\ rc_set_calls' = rc_set_calls + 1
    /\ rc_before' = uio
    /\ rc_skipped' = FALSE
    /\ rc_set_todo' = FeaturesToDisable
    /\ rc_set_pc' = "disable"
    /\ UNCHANGED <<uio, tickVars, rc_carried, notRaceUio>>

\* Pin.disable_all_features: one disable_feature of its loop.
RaceSetDisable ==
    /\ rc_set_pc = "disable"
    /\ uio' = PinDisableFeature(uio, RacePin, Head(rc_set_todo))
    /\ rc_set_todo' = Tail(rc_set_todo)
    /\ rc_set_pc' = IF Tail(rc_set_todo) = << >> THEN "set_voltage" ELSE "disable"
    /\ UNCHANGED <<rc_set_arg, rc_set_calls, rc_before, rc_skipped>>
    /\ UNCHANGED <<tickVars, rc_carried, notRaceUio>>

\* Pin.set_voltage: the two _set_op_mode calls and the switch, one at a time.
RaceSetEnable ==
    /\ rc_set_pc \in {"set_voltage", "get_voltage", "switch"}
    /\ uio' = CASE rc_set_pc = "set_voltage" ->
                      UioSetOpMode(uio, RacePin, "SET_VOLTAGE", OPERATE)
                [] rc_set_pc = "get_voltage" ->
                      UioSetOpMode(uio, RacePin, "GET_VOLTAGE", OPERATE)
                [] rc_set_pc = "switch" ->
                      [uio EXCEPT !.sw["vlt_o"][RacePin] = TRUE]
    /\ rc_set_pc' = CASE rc_set_pc = "set_voltage" -> "get_voltage"
                      [] rc_set_pc = "get_voltage" -> "switch"
                      [] rc_set_pc = "switch" -> "value"
    /\ UNCHANGED <<rc_set_arg, rc_set_todo, rc_set_calls, rc_before, rc_skipped>>
    /\ UNCHANGED <<tickVars, rc_carried, notRaceUio>>

\* Pin.set_voltage: _voltages_out[pin] = voltage.
RaceSetValue ==
    /\ rc_set_pc = "value"
    /\ uio' = [uio EXCEPT !.v[RacePin] = rc_set_arg]
    /\ rc_set_pc' = "compare"
    /\ UNCHANGED <<rc_set_arg, rc_set_todo, rc_set_calls, rc_before, rc_skipped>>
    /\ UNCHANGED <<tickVars, rc_carried, notRaceUio>>

\* Pin.set_voltage: if _voltages_out != _voltages_out_last.
RaceSetCompare ==
    /\ rc_set_pc = "compare"
    /\ rc_skipped' = (uio.v = uio.vl)
    /\ rc_set_pc' = IF uio.v # uio.vl THEN "send" ELSE "idle"
    /\ UNCHANGED <<rc_set_arg, rc_set_todo, rc_set_calls, rc_before>>
    /\ UNCHANGED <<uio, tickVars, rc_carried, notRaceUio>>

\* DeviceUIO._send_voltage_out_req on the caller thread.
RaceSetSend ==
    /\ rc_set_pc = "send"
    /\ \E ok \in BOOLEAN :
         LET r == UioSendVoltageOutReq(Result(uio, NoLog, FALSE), ok)
         IN  /\ uio' = r.d
             /\ rc_carried' = rc_carried \cup {r.log.sent[i].data : i \in 1 .. Len(r.log.sent)}
    /\ rc_set_pc' = "idle"
    /\ UNCHANGED <<rc_set_arg, rc_set_todo, rc_set_calls, rc_before, rc_skipped>>
    /\ UNCHANGED <<tickVars, notRaceUio>>

\* Whether a call of set_voltage is under way.
MidCall == rc_set_pc # "idle"

\* DeviceUIO._send_op_mode_req: the iteration over _op_modes[pin] begins.
RaceTickOpIter ==
    /\ rc_tick_pc = "idle"
    /\ rc_ticks < MaxTicks
    /\ rc_ticks' = rc_ticks + 1
    /\ rc_tick_keys' = DOMAIN uio.op[RacePin]
    /\ rc_tick_pc' = "op_mode"
    /\ UNCHANGED <<rc_tick_data, rc_tick_raised, rc_seen_op, rc_seen_sw>>
    /\ UNCHANGED <<uio, setVars, rc_carried, notRaceUio>>

\* DeviceUIO._send_op_mode_req: the iteration goes on and the message is sent,
\* or the dict it iterates has changed size and the iteration raises
\* RuntimeError, which ends this run of _send_all_parameters.
RaceTickOpSend ==
    /\ rc_tick_pc = "op_mode"
    /\ IF rc_tick_keys # {} /\ DOMAIN uio.op[RacePin] # rc_tick_keys
       THEN /\ rc_tick_raised' = TRUE
            /\ rc_tick_pc' = "idle"
            /\ UNCHANGED rc_seen_op
       ELSE /\ rc_seen_op' = Seen(UioOpModeData(uio), rc_before, rc_set_arg, MidCall)
            /\ rc_tick_pc' = "voltage"
            /\ UNCHANGED rc_tick_raised
    /\ UNCHANGED <<rc_tick_keys, rc_tick_data, rc_ticks, rc_seen_sw>>
    /\ UNCHANGED <<uio, setVars, rc_carried, notRaceUio>>

\* DeviceUIO._send_voltage_out_req on the scheduler thread: data is built from
\* _voltages_out and sent.
RaceTickVoltageSend ==
    /\ rc_tick_pc = "voltage"
    /\ rc_tick_data' = uio.v
    /\ \E ok \in BOOLEAN :
         /\ rc_carried' = IF ok THEN rc_carried \cup {uio.v} ELSE rc_carried
         /\ rc_tick_pc' = IF ok THEN "mirror" ELSE "rest"
    /\ UNCHANGED <<rc_tick_keys, rc_ticks, rc_tick_raised, rc_seen_op, rc_seen_sw>>
    /\ UNCHANGED <<uio, setVars, notRaceUio>>

\* DeviceUIO._send_voltage_out_req on the scheduler thread, after the send:
\* _voltages_out_last = _voltages_out.copy().
RaceTickVoltageMirror ==
    /\ rc_tick_pc = "mirror"
    /\ uio' = [uio EXCEPT !.vl = uio.v]
    /\ rc_tick_pc' = "rest"
    /\ UNCHANGED <<rc_tick_keys, rc_tick_data, rc_ticks, rc_tick_raised, rc_seen_op, rc_seen_sw>>
    /\ UNCHANGED <<setVars, rc_carried, notRaceUio>>

\* DeviceUIO._send_all_parameters, the rest: _send_current_out_req,
\* _send_pwm_out_req and _send_switch_output_req.
RaceTickRest ==
    /\ rc_tick_pc = "rest"
    /\ \E oks \in [3 .. 5 -> BOOLEAN] :
         uio' = UioSendSwitchOutputReq(
                  UioSendPwmOutReq(
                    UioSendCurrentOutReq(Result(uio, NoLog, FALSE), oks[3]),
                    oks[4]),
                  oks[5]).d
    /\ rc_seen_sw' = Seen(UioSwitchData(uio), rc_before, rc_set_arg, MidCall)
    /\ rc_tick_pc' = "idle"
    /\ UNCHANGED <<rc_tick_keys, rc_tick_data, rc_ticks, rc_tick_raised, rc_seen_op>>
    /\ UNCHANGED <<setVars, rc_carried, notRaceUio>>

RaceNext ==
    \/ RaceSetBegin
    \/ RaceSetDisable
    \/ RaceSetEnable
    \/ RaceSetValue
    \/ RaceSetCompare
    \/ RaceSetSend
    \/ RaceTickOpIter
    \/ RaceTickOpSend
    \/ RaceTickVoltageSend
    \/ RaceTickVoltageMirror
    \/ RaceTickRest

InitRace == kind = "UIO" /\ DevFresh /\ TMInit /\ ExtInit

SpecRace == InitRace /\ [][RaceNext]_vars

\* The shadow a complete set_voltage(RacePin, arg) leaves when it starts from
\* the shadow before: op-modes and switches do not depend on the send.
AfterCall(before, arg) == PinSetVoltage(before, RacePin, arg, TRUE).d

\* C28 (as claimed): a periodic snapshot never observes a setter half-way:
\* every OP_MODE_REQ and SWITCH_OUTPUT_REQ of the scheduler thread renders the
\* shadow as it stood before or after a complete setter call, and the
\* scheduler's reads of the shadow never fail because a setter mutates it.
C28_SnapshotSeesWholeCalls ==
    /\ ~rc_tick_raised
    /\ rc_seen_op.mid =>
          rc_seen_op.data \in {UioOpModeData(rc_seen_op.before),
                               UioOpModeData(AfterCall(rc_seen_op.before, rc_seen_op.arg))}
    /\ rc_seen_sw.mid =>
          rc_seen_sw.data \in {UioSwitchData(rc_seen_sw.before),
                               UioSwitchData(AfterCall(rc_seen_sw.before, rc_seen_sw.arg))}

\* C30 (as claimed): under every interleaving of a setter with a periodic
\* send, the last-sent mirror holds only values that a successfully sent
\* message carried (or those of construction), so a setter never skips its
\* immediate send for a value that no sent message has carried.
C30_MirrorHoldsSentValues ==
    /\ uio.vl \in rc_carried \cup {UioInit.vl}
    /\ (rc_set_pc = "idle" /\ rc_skipped) => uio.v \in rc_carried

\* ------------------------------------------------ scheduler passes over time

\* Last instant of the clock of the scheduler passes.
SchedHorizon == 5

\* period_us of the two tasks, in clock units.
SchedPeriods == {1, 2, 3}

\* A scan that stamps a selected task with its previous deadline.
Stamp_Deadline(task, ct) == task.last_run + task.period

\* "task.last_run = current_time" of the scan in _run.
Stamp(task, ct) == ct

\* "(current_time - task.last_run) >= period_sec" of the scan in _run.
IsDue(task, ct) == ct - task.last_run >= task.period

\* The names among the first k of SchedNames whose task is due, in dict order.
RECURSIVE DueNames(_, _)
DueNames(k, ct) ==
    IF k = 0 THEN << >>
    ELSE DueNames(k - 1, ct)
         \o (IF IsDue(sch_tasks[SchedNames[k]], ct) THEN <<SchedNames[k]>> ELSE << >>)

\* One more time in a record of times.
Noted(r, t) == [prev |-> r.last, last |-> t, count |-> r.count + 1]

\* "while self.running:" and "current_time = time.time()".
SchedTop ==
    /\ sch_pc = "top"
    /\ sch_ct' = sch_now
    /\ sch_pc' = "scan"
    /\ UNCHANGED <<sch_now, sch_tasks, sch_queue, sch_sel, sch_inv, notSched>>

\* The scan under the lock: every due task is appended once and stamped.
SchedScan ==
    /\ sch_pc = "scan"
    /\ LET due == DueNames(Len(SchedNames), sch_ct)
           sel == {due[i] : i \in 1 .. Len(due)}
       IN  /\ sch_queue' = due
           /\ sch_tasks' = [n \in DOMAIN sch_tasks |->
                               IF n \in sel
                               THEN [sch_tasks[n] EXCEPT !.last_run = Stamp(sch_tasks[n], sch_ct)]
                               ELSE sch_tasks[n]]
           /\ sch_sel' = [n \in DOMAIN sch_sel |->
                             IF n \in sel THEN Noted(sch_sel[n], sch_ct) ELSE sch_sel[n]]
           /\ sch_pc' = IF due = << >> THEN "top" ELSE "run"
    /\ UNCHANGED <<sch_now, sch_ct, sch_inv, notSched>>

\* "task.callback()" is entered.
SchedInvoke ==
    /\ sch_pc = "run"
    /\ sch_inv' = [sch_inv EXCEPT ![Head(sch_queue)] = Noted(@, sch_now)]
    /\ sch_pc' = "cb"
    /\ UNCHANGED <<sch_now, sch_tasks, sch_ct, sch_queue, sch_sel, notSched>>

\* The callback returns or raises; the next task of the pass, or the sleep.
SchedCallbackEnds ==
    /\ sch_pc = "cb"
    /\ sch_queue' = Tail(sch_queue)
    /\ sch_pc' = IF Tail(sch_queue) = << >> THEN "top" ELSE "run"
    /\ UNCHANGED <<sch_now, sch_tasks, sch_ct, sch_sel, sch_inv, notSched>>

\* Time passes: in a callback, in the sleep, or while the thread is not run.
SchedTick ==
    /\ sch_now < SchedHorizon
    /\ sch_now' = sch_now + 1
    /\ UNCHANGED <<sch_tasks, sch_pc, sch_ct, sch_queue, sch_sel, sch_inv, notSched>>

SchedNext == SchedTop \/ SchedScan \/ SchedInvoke \/ SchedCallbackEnds \/ SchedTick

InitSched ==
    /\ kind = "UIO" /\ DevFresh /\ TMInit /\ CadInit /\ SeqInit /\ RxInit /\ SdkInit /\ DiscInit /\ CodecInit /\ RaceInit /\ CbInit
    /\ \E periods \in [{"a", "b"} -> SchedPeriods] : SchedStart(periods)

SpecSched == InitSched /\ [][SchedNext]_vars

\* C31 (as claimed): a task is selected at most once per scan and stamped
\* with the scan's time, so a delayed scheduler invokes it once, and two
\* consecutive invocations of the same task are at least its period apart.
C31_AsClaimed ==
    \A n \in DOMAIN sch_inv :
        sch_inv[n].prev >= 0 => sch_inv[n].last - sch_inv[n].prev >= sch_tasks[n].period

\* C31: a task is selected at most once per scan and stamped with the scan's
\* time; two consecutive scans that select the same task are at least its
\* period apart, so after a delay of k periods the task is selected and
\* invoked once, not k times: the number of its invocations never exceeds the
\* whole periods elapsed.
C31_NoCatchUpBurst ==
    \A n \in DOMAIN sch_sel :
        /\ Cardinality({i \in 1 .. Len(sch_queue) : sch_queue[i] = n}) <= 1
        /\ sch_sel[n].count > 0 => sch_tasks[n].last_run = sch_sel[n].last
        /\ sch_sel[n].prev >= 0 => sch_sel[n].last - sch_sel[n].prev >= sch_tasks[n].period
        /\ sch_inv[n].count <= sch_sel[n].count
        /\ sch_sel[n].count * sch_tasks[n].period <= sch_now

\* A scheduler three periods late has selected and invoked the task once.
C31_Witness ==
    /\ sch_tasks["a"].period = 1
    /\ sch_sel["a"].count = 1 /\ sch_sel["a"].last >= 3
    /\ sch_inv["a"].count = 1
    /\ sch_pc = "top" /\ sch_now > sch_sel["a"].last

\* ------------------------------------------------ callbacks and locks

\* ACF blocks followed, and calls a callback makes back into the API.
MaxBlocks == 2
MaxNested == 2

TaskApi == {"add_task", "remove_task", "enable_task", "disable_task"}
MapApi == {"register_message_callback", "unregister_message_callback"}

\* End of the block "with self._lock:" of the scan: the lock is given back.
ScanExit_Held(holder) == holder
ScanExit(holder) == "free"

\* End of the block "with self._message_callbacks_lock:" of the lookup.
LookupExit_Held(holder) == holder
LookupExit(holder) == "free"

\* try: callback(...) except Exception: logger.error(...): the statement after
\* the try is reached whether or not the callback raised.
Caught_Propagates(after, raised) == IF raised THEN "escaped" ELSE after
Caught(after, raised) == after

\* add_task / remove_task / enable_task / disable_task, the body under the lock.
TaskAfter(task, op) ==
    CASE op = "add_task" -> [present |-> TRUE, enabled |-> TRUE]
      [] op = "remove_task" -> [present |-> FALSE, enabled |-> FALSE]
      [] op = "enable_task" -> IF task.present THEN [task EXCEPT !.enabled = TRUE] ELSE task
      [] op = "disable_task" -> IF task.present THEN [task EXCEPT !.enabled = FALSE] ELSE task

\* _run: "with self._lock:" entered.
CbScanEnter ==
    /\ cb_pc.sched = "top"
    /\ cb_lock = "free"
    /\ cb_lock' = "sched"
    /\ cb_pc' = [cb_pc EXCEPT !.sched = "scan"]
    /\ UNCHANGED <<cb_map_lock, cb_task, cb_registered, cb_block, cb_blocks, cb_shadow,
                   cb_api, notCb>>

\* _run: the scan collects the task if it is enabled (and due), the with
\* block ends, and task.callback() is entered for a collected task.
CbScanLeave ==
    /\ cb_pc.sched = "scan"
    /\ cb_lock' = ScanExit(cb_lock)
    /\ cb_pc' = [cb_pc EXCEPT !.sched =
                    IF cb_task.present /\ cb_task.enabled THEN "cb" ELSE "top"]
    /\ UNCHANGED <<cb_map_lock, cb_task, cb_registered, cb_block, cb_blocks, cb_shadow,
                   cb_api, notCb>>

\* The task's callback calls add_task, remove_task, enable_task or
\* disable_task: each takes self._lock, which is not reentrant, so a thread
\* that holds it already waits for ever.
CbTaskApi(op) ==
    /\ cb_pc.sched = "cb"
    /\ cb_api.sched < MaxNested
    /\ IF cb_lock = "free"
       THEN /\ cb_task' = TaskAfter(cb_task, op)
            /\ cb_api' = [cb_api EXCEPT !.sched = @ + 1]
            /\ UNCHANGED cb_pc
       ELSE /\ cb_pc' = [cb_pc EXCEPT !.sched = "blocked"]
            /\ UNCHANGED <<cb_task, cb_api>>
    /\ UNCHANGED <<cb_lock, cb_map_lock, cb_registered, cb_block, cb_blocks, cb_shadow, notCb>>

\* _run: task.callback() returns or raises; either way the error count is
\* written under self._lock and the pass ends.
CbTaskEnds(raises) ==
    /\ cb_pc.sched = "cb"
    /\ cb_pc' = [cb_pc EXCEPT !.sched = IF cb_lock = "free" THEN "top" ELSE "blocked"]
    /\ UNCHANGED <<cb_lock, cb_map_lock, cb_task, cb_registered, cb_block, cb_blocks,
                   cb_shadow, cb_api, notCb>>

\* _parse_acf_can_message is called with a block of 8 bytes or more.  raw: the
\* device is an IfMux with a raw-CAN callback and the block is no system
\* message; decoded: can_db.decode_message returns a message.
CbBlock(raw, decoded) ==
    /\ cb_pc.rx = "idle"
    /\ cb_blocks < MaxBlocks
    /\ cb_blocks' = cb_blocks + 1
    /\ cb_block' = [NoBlock EXCEPT !.raw = raw, !.decoded = decoded]
    /\ cb_pc' = [cb_pc EXCEPT !.rx = IF raw THEN "raw_cb" ELSE "decode"]
    /\ UNCHANGED <<cb_lock, cb_map_lock, cb_task, cb_registered, cb_shadow, cb_api, notCb>>

\* DeviceIfMux._parse_acf_can_message: self._raw_can_callback(...) returns or
\* raises inside its try, then super()._parse_acf_can_message.
CbRawEnds(raises) ==
    /\ cb_pc.rx = "raw_cb"
    /\ cb_block' = [cb_block EXCEPT !.raw_raised = raises]
    /\ cb_pc' = [cb_pc EXCEPT !.rx = Caught("decode", raises)]
    /\ UNCHANGED <<cb_lock, cb_map_lock, cb_task, cb_registered, cb_blocks, cb_shadow,
                   cb_api, notCb>>

\* DeviceSDR._parse_acf_can_message: a block that does not decode is left
\* alone; for a decoded one the lock of the callback map is taken.
CbLookupEnter ==
    /\ cb_pc.rx = "decode"
    /\ IF cb_block.decoded
       THEN /\ cb_map_lock \in {"free", "rx"}
            /\ cb_map_lock' = "rx"
            /\ cb_pc' = [cb_pc EXCEPT !.rx = "lookup"]
       ELSE /\ cb_pc' = [cb_pc EXCEPT !.rx = "idle"]
            /\ UNCHANGED cb_map_lock
    /\ UNCHANGED <<cb_lock, cb_task, cb_registered, cb_block, cb_blocks, cb_shadow,
                   cb_api, notCb>>

\* callback = self._message_callbacks.get(pgn), the with block ends, and the
\* callback, if there is one, is entered; else the device's handler is next.
CbLookupLeave ==
    /\ cb_pc.rx = "lookup"
    /\ cb_map_lock' = LookupExit(cb_map_lock)
    /\ cb_pc' = [cb_pc EXCEPT !.rx = IF cb_registered THEN "pgn_cb" ELSE "handler"]
    /\ UNCHANGED <<cb_lock, cb_task, cb_registered, cb_block, cb_blocks, cb_shadow,
                   cb_api, notCb>>

\* The PGN callback calls register_message_callback or
\* unregister_message_callback: the RLock lets its holder in again.
CbMapApi(op) ==
    /\ cb_pc.rx = "pgn_cb"
    /\ cb_api.rx < MaxNested
    /\ cb_map_lock \in {"free", "rx"}
    /\ cb_registered' = (op = "register_message_callback")
    /\ cb_api' = [cb_api EXCEPT !.rx = @ + 1]
    /\ UNCHANGED <<cb_pc, cb_lock, cb_map_lock, cb_task, cb_block, cb_blocks, cb_shadow, notCb>>

\* callback(pgn, data, src_mac) returns or raises inside its try.
CbPgnEnds(raises) ==
    /\ cb_pc.rx = "pgn_cb"
    /\ cb_block' = [cb_block EXCEPT !.pgn_raised = raises]
    /\ cb_pc' = [cb_pc EXCEPT !.rx = Caught("handler", raises)]
    /\ UNCHANGED <<cb_lock, cb_map_lock, cb_task, cb_registered, cb_blocks, cb_shadow,
                   cb_api, notCb>>

\* self._process_can_message(pgn, data, src_mac): the shadow is updated, or
\* the handler raises and the outer except logs it.
CbHandler(raises) ==
    /\ cb_pc.rx = "handler"
    /\ cb_block' = [cb_block EXCEPT !.handler_raised = raises, !.handled = ~raises]
    /\ cb_shadow' = IF raises THEN cb_shadow ELSE cb_shadow + 1
    /\ cb_pc' = [cb_pc EXCEPT !.rx = "idle"]
    /\ UNCHANGED <<cb_lock, cb_map_lock, cb_task, cb_registered, cb_blocks, cb_api, notCb>>

CbNext ==
    \/ CbScanEnter
    \/ CbScanLeave
    \/ \E op \in TaskApi : CbTaskApi(op)
    \/ \E raises \in BOOLEAN : CbTaskEnds(raises)
    \/ \E raw, decoded \in BOOLEAN : CbBlock(raw, decoded)
    \/ \E raises \in BOOLEAN : CbRawEnds(raises)
    \/ CbLookupEnter
    \/ CbLookupLeave
    \/ \E op \in MapApi : CbMapApi(op)
    \/ \E raises \in BOOLEAN : CbPgnEnds(raises)
    \/ \E raises \in BOOLEAN : CbHandler(raises)

InitCb == kind = "UIO" /\ DevFresh /\ TMInit /\ ExtInit

SpecCb == InitCb /\ [][CbNext]_vars

\* C32: while a task callback executes the scheduler thread does not hold the
\* TaskMonitor lock, and while a registered PGN callback executes the receiver
\* thread does not hold the lock of the callback map; a callback that calls
\* add_task, remove_task, enable_task, disable_task, register_message_callback
\* or unregister_message_callback never ends up waiting for a lock its own
\* thread holds.
C32_CallbacksOutsideLocks ==
    /\ cb_pc.sched = "cb" => cb_lock # "sched"
    /\ cb_pc.rx = "pgn_cb" => cb_map_lock # "rx"
    /\ cb_pc.sched # "blocked"
    /\ cb_pc.rx # "blocked"

\* Both callbacks are running and each has called back into the API.
C32_Witness ==
    /\ cb_pc.sched = "cb" /\ cb_api.sched > 0
    /\ cb_pc.rx = "pgn_cb" /\ cb_api.rx > 0

\* C34: an exception raised by the PGN callback or by the raw-CAN callback of
\* an IfMux is caught: it does not leave _parse_acf_can_message, the device's
\* handler runs for every block that decodes and, unless it fails itself,
\* updates the shadow, and the receiver goes on to the next block.
C34_CallbackExceptionCaught ==
    /\ cb_pc.rx # "escaped"
    /\ (cb_pc.rx = "idle" /\ cb_block.decoded /\ ~cb_block.handler_raised)
          => cb_block.handled
    /\ (cb_block.raw_raised \/ cb_block.pgn_raised)
          => cb_pc.rx \in {"idle", "decode", "lookup", "pgn_cb", "handler"}

\* The second block of a frame: both callbacks raised, the handler has run,
\* and the shadow holds the updates of both blocks.
C34_Witness ==
    /\ cb_blocks = MaxBlocks
    /\ cb_pc.rx = "idle"
    /\ cb_block.raw_raised /\ cb_block.pgn_raised
    /\ cb_block.handled
    /\ cb_shadow = MaxBlocks

\* ------------------------------------------------ frames of other modules

\* C33: a frame whose Ethernet source MAC is not the device's MAC is given up
\* before the loop over its ACF blocks: no block reaches
\* _parse_acf_can_message, so neither the raw-CAN callback, nor a PGN
\* callback, nor the device's handler (the only writer of the shadow on the
\* receive path) is called for it.
C33_ForeignFrameIgnored ==
    (rx_count > 0 /\ rx_who = "device" /\ ~rx_frame.mac_ok)
       => /\ rx_pc = "idle"
          /\ rx_blocks = << >>
          /\ rx_verdict \in {"short", "foreign"}

\* A frame of another module that the device would have parsed block by block
\* had it been its own, after a frame of the device whose block was handled.
C33_Witness ==
    /\ rx_count = MaxRxFrames
    /\ rx_who = "device" /\ ~rx_frame.mac_ok
    /\ rx_verdict = "foreign"
    /\ HeaderVerdict("discovery", rx_frame) = "loop"
    /\ LoopCond(rx_frame, HeaderLen) /\ MessageLengthBytes(rx_frame, HeaderLen) >= 8
    /\ rx_handled = 1

\* C39 (as claimed): the health counters of a device advance only when a frame
\* whose source MAC is the device's MAC is received.  _on_avtp_frame writes
\* last_seen and message_count before _parse_avtp_frame compares the source
\* MAC, for every frame the receiver thread hands over.
C39_HealthOnlyFromOwnFrames ==
    [][rx_health'.message_count > rx_health.message_count => rx_frame'.mac_ok]_vars

\* ------------------------------------------------ disabling a collected task

\* C35 (as claimed): once disable_task(name) has returned, the callback of
\* that task is not started until enable_task or add_task, also when the scan
\* of a scheduler thread had collected the task before the call.  A task that
\* is in the registry, not enabled and not switched off by the error limit was
\* switched off by disable_task.  _run calls task.callback() for every
\* collected task without looking at task.enabled or at self.tasks again
\* (remove_task races with the scan in the same way).
C35_NoStartAfterDisable ==
    [][\A t \in Threads :
         (pc[t] = "run" /\ pc'[t] = "cb")
            => \A e \in {Head(tasks_to_execute[t])} :
                 ~(/\ e.live
                   /\ IndexOf(e.name) # 0
                   /\ ~tasks[IndexOf(e.name)].enabled
                   /\ e.name \notin auto_disabled)]_vars

\* ------------------------------------------------ the class a connect returns

\* C38 (as claimed): connect_uio returns a UIO device, connect_eload an ELoad
\* and connect_ifmux an IfMux, whatever was connected and disconnected before,
\* also when the MAC is connected through another of the three methods.  Each
\* method returns the entry of the MAC, whatever its class, when there is one.
C38_ConnectReturnsItsClass ==
    \A k \in DeviceKinds, mac \in MacArgs, auto_start \in BOOLEAN :
        (Connected(sdk_devices, Upper(mac)) \/ Len(sdk_objects) < MaxObjects)
           => LET r == Connect(sdk_devices, sdk_objects, k, mac, auto_start)
              IN  r.objs[r.ret].kind = k

\* ------------------------------------------------ reading back what was set

\* C40 (as claimed): after set_tx_current(c) on a pin with 0 <= c <= 20 the
\* last-sent half of the pin's current ValuePair is c, which is what
\* get_tx_current() returns.  set_tx_current writes c to _currents_out and
\* 0.0 to state.current.set_value.
C40_TxCurrentReadsBack ==
    (kind = "UIO" /\ call.op = "set_tx_current" /\ ~call.raised)
       => PinGetTxCurrent(uio, call.idx) = call.args[1]

\* C37 (as claimed): the read accessors of a UIO pin leave the op-modes, the
\* switch states and the value vectors as they are, so the next snapshot is
\* the one that would have been sent without the read.  get_voltage writes
\* GET_VOLTAGE = Operate into the op-mode table and get_rx_current disables
\* every feature of the pin before it switches the pin to current input.
C37_ReadsLeaveShadow ==
    [][(kind = "UIO"
        /\ call'.op \in {"get_voltage", "get_tx_current", "get_rx_current", "get_pwm",
                         "get_feature_state"})
       => UioShadow(uio)' = UioShadow(uio)]_vars

\* ------------------------------------------------ one output per pin

OutputFeature ==
    [op \in {"set_voltage", "set_tx_current", "set_pwm"} |->
        CASE op = "set_voltage" -> "SET_VOLTAGE"
          [] op = "set_tx_current" -> "SET_CURRENT"
          [] op = "set_pwm" -> "SET_PWM"]

\* C36: when set_voltage, set_tx_current or set_pwm has returned on a UIO pin,
\* whatever was called on the pin before, the output feature of that call is
\* the only one of SET_VOLTAGE, SET_CURRENT, SET_PWM in Operate on the pin,
\* the other two are Disabled, and of the switches vlt_o, cur_o, pwm of the
\* pin only the one of that call is closed.
C36_OneOutputPerPin ==
    (kind = "UIO" /\ call.op \in DOMAIN OutputFeature /\ ~call.raised)
       => \A f \in {"SET_VOLTAGE", "SET_CURRENT", "SET_PWM"} :
             /\ f \in DOMAIN uio.op[call.idx]
             /\ uio.op[call.idx][f] =
                   (IF f = OutputFeature[call.op] THEN OPERATE ELSE DISABLED)
             /\ uio.sw[FeatureToSwitch[f]][call.idx] = (f = OutputFeature[call.op])

\* set_tx_current has returned on a pin that had been given a voltage and a
\* PWM output before.
C36_Witness ==
    /\ kind = "UIO" /\ call.op = "set_tx_current" /\ ~call.raised
    /\ uio.v[call.idx] = 12
    /\ uio.p[call.idx][1] = 1000
    /\ uio.sw["cur_o"][call.idx]

=============================================================================
